---- MODULE Spec2Model ----
(***************************************************************************)
(* Card Management System mock servers: the authorization / ledger engine  *)
(* of mock-server/authorisation.js, the status update and the PIN routes   *)
(* with the HSM simulator they call, and the card lifecycle routes, over   *)
(* the schema of the SQL script.                                           *)
(*                                                                         *)
(* Money.  Every monetary value is an integer number of mills, one mill    *)
(* being 0.001 ZAR, so that a DECIMAL(.,2) column holds a multiple of 10   *)
(* and the JavaScript numbers the handlers compute (amount * 18.50) can    *)
(* carry the half cent that the column cannot.  Request amounts are whole  *)
(* cents.  JavaScript arithmetic is modelled exactly on these integers;    *)
(* the one place where binary floating point decides the outcome, rounding *)
(* a value that lies exactly between two cents into a DECIMAL column, is a *)
(* choice between the two neighbouring cents (Decimal2).                   *)
(*                                                                         *)
(* Persistence.  The tables are the committed rows.  A transaction keeps   *)
(* its writes in tx until COMMIT installs them; ROLLBACK discards them.    *)
(* An UPDATE of an accounts row takes the InnoDB row lock of that row and  *)
(* holds it until the transaction ends.  dbConnection.query on the pool    *)
(* runs outside every transaction and reads the committed rows.  Every     *)
(* getConnection is taken to return a connection that no other request in  *)
(* flight is using.                                                        *)
(*                                                                         *)
(* Cards.  The card routes of mock-server/CardCreate.js (create, reissue,  *)
(* activate, status) run each statement on the pool, committed as it is    *)
(* made.  The cards table is a function from exid to row whose domain      *)
(* grows with every INSERT; the exids and cvvs the routes generate are     *)
(* drawn from small sets.                                                  *)
(***************************************************************************)
EXTENDS Integers, Sequences, FiniteSets, TLC

\* ---------------------------------------------------------------- bounds
MaxRequests == 3        \* requests received in one behaviour of Spec
MaxSeqRequests == 2     \* requests received in one behaviour of SpecSeq
MaxInRequests == 1      \* requests received in one behaviour of SpecIn
MaxStRequests == 3      \* requests received in one behaviour of SpecSt
MaxPinRequests == 3     \* requests received in one behaviour of SpecPin
MaxPinCoRequests == 2   \* requests received in one behaviour of SpecPinCo
MaxClock == 5           \* milliseconds the clock of SpecArqc can reach
MaxAsRequests == 3      \* requests received in one behaviour of SpecAs
MaxCardRequests == 2    \* requests received in one behaviour of SpecCard
MaxCardPinRequests == 3 \* requests received in one behaviour of SpecCardPin
MaxCardBalRequests == 2 \* requests received in one behaviour of SpecCardBal
MaxFeeSteps == 150      \* amounts of SpecFee, in steps of FeeStep
Reqs == {1, 2}          \* requests that can be in flight at the same time

\* ------------------------------------------------------------- constants
BASE_CURRENCY == "ZAR"
Now == 100              \* the current month, counted in months
NULL == <<>>            \* SQL NULL; parseFloat(NULL) is NaN, also <<>>
NaN == -1               \* parseFloat of a request field that is absent

Accounts == {"A1", "A2"}
Cards == {"K1", "K2", "K3", "K4", "K5", "K6"}
Statuses == {"Active", "Frozen", "Closed", "Inactive", "Blocked", "Expired", "Replaced"}
CardStatuses == {"Active", "Inactive", "Blocked", "Expired", "Replaced"}

\* request fields; "" is a missing field, K0 and A0 exist in no table.
\* Spec runs two requests at a time over the first group of values, SpecSeq
\* one request at a time over the second, SpecIn one request at a time over
\* the third and keeps the request body at hand.
TxnTypes == {"BILL_PAYMENT", "POS_INTERNATIONAL", "POS_PURCHASE",
             "ATM_Balance_Inquiry", ""}
ExIds == {"K1", "K3", "K5", "K0", ""}
Currencies == {"ZAR", "GBP", ""}
AuthAmounts == {0, 500000}

SeqTxnTypes == TxnTypes \cup {"ATM_WITHDRAWAL"}
SeqExIds == {"K1", "K2", "K3", "K4", "K5", "K0", ""}
SeqCurrencies == {"ZAR", "USD", "GBP", ""}
SeqAuthAmounts == {0, 10, 500000, 600000}

InTxnTypes == {"BILL_PAYMENT", "POS_PURCHASE", "ATM_WITHDRAWAL",
               "ATM_Balance_Inquiry", ""}
InExIds == Cards \cup {"K0", ""}
InCurrencies == {"ZAR", "USD", "EUR", "GBP", ""}
InAuthAmounts == {NaN, 0, 10, 500000, 1050000}

AccountNumbers == Accounts \cup {"A0", ""}
DepositAmounts == {0, 250000}
InDepositAmounts == {NaN, 0, 250000}
InPinExIds == {"K1", "K0", ""}

isNaN(v) == v = NaN

\* Strings that the code takes apart are sequences of characters; <<>> is the
\* empty string and a field that is absent.
PanK1 == <<"4", "1", "1", "1", "1", "1", "1", "1", "1", "1", "1", "1", "1", "1", "1", "1">>
PanOther == <<"5", "5", "0", "0", "0", "0", "0", "0", "0", "0", "0", "0", "0", "0", "0", "4">>
Pin1234 == <<"1", "2", "3", "4">>
Pin5705 == <<"5", "7", "0", "5">>
Pin123 == <<"1", "2", "3">>
Pin12a4 == <<"1", "2", "a", "4">>
PinBlock5 == <<"5", "0", "4", "2", "3", "0", "2", "D", "3", "4", "3", "1", "3", "2", "3", "3">>
PinBlock8 == <<"8", "0", "4", "2", "3", "0", "2", "D", "3", "4", "3", "1", "3", "2", "3", "3">>

\* the fields of the PIN requests in SpecPin
PinExIds == {"K1", "K2", "K3", "K0", ""}
Pins == {Pin1234, Pin5705, Pin123, Pin12a4, <<>>}
PinBlocks == {PinBlock5, PinBlock8, <<>>}

\* the fields of the SetPin requests in SpecPinCo
PinCoExIds == {"K1", "K2", "K0"}
PinCoPins == {Pin1234, Pin5705, Pin123}

\* the arguments of calculateAndApplyFee in SpecFee: every type of the
\* schedule and one that is not in it; amounts from 0 to 5025.00 in steps of
\* 33.50, with 2000.00 and the amounts next to where the clamps set in
FeeStep == 33500
FeeTypes == {"ATM_WITHDRAWAL", "BILL_PAYMENT", "POS_INTERNATIONAL",
             "ECOMMERCE_INTERNATIONAL", "VOUCHER_PAYMENT", "LOTTO_PAYMENT",
             "POS_PURCHASE"}
FeeAmounts == {FeeStep * k : k \in 0..MaxFeeSteps}
                \cup {10, 333330, 333340, 999990, 1000000, 1000010, 2000000,
                      3333330, 3333340}

\* the fields of a status update in SpecSt; Suspended is no status
StAccountNumbers == {"A1", "A2", "A0", ""}
StExIds == {"K5", "K0", ""}
NewStatuses == {"Active", "Frozen", "Suspended", ""}
StDepositAccounts == {"A1", "A2", "A0"}

\* ---------------------------------------------------------- fee schedule
FEE_SCHEDULE ==
  [ATM_WITHDRAWAL |-> [code |-> "ATM_WDL_FEE", rate |-> 15, min |-> 5000,
                       max |-> 50000, type |-> "PERCENTAGE_MIN_MAX"],
   BILL_PAYMENT |-> [code |-> "BILL_PAY_FEE", rate |-> 2500, min |-> 0,
                     max |-> 0, type |-> "FIXED"],
   POS_INTERNATIONAL |-> [code |-> "EXCHANGE_CTRL_FEE", rate |-> 10,
                          min |-> 10000, max |-> 0, type |-> "PERCENTAGE_MIN"],
   ECOMMERCE_INTERNATIONAL |-> [code |-> "EXCHANGE_CTRL_FEE", rate |-> 10,
                                min |-> 10000, max |-> 0,
                                type |-> "PERCENTAGE_MIN"],
   VOUCHER_PAYMENT |-> [code |-> "VOUCH_PAY_FEE", rate |-> 1000, min |-> 0,
                        max |-> 0, type |-> "FIXED"],
   LOTTO_PAYMENT |-> [code |-> "LOTTO_PAY_FEE", rate |-> 2500, min |-> 0,
                      max |-> 0, type |-> "FIXED"]]

\* Number.prototype.toFixed(2) of n/1000 mills, as mills: nearest cent
ToFixed2(n) == 10 * ((2 * n + 10000) \div 20000)

\* calculateAndApplyFee with the bug of leaving the upper clamp out
calculateAndApplyFeeNoMax(type, amount) ==
  IF type \notin DOMAIN FEE_SCHEDULE THEN 0
  ELSE LET feeConfig == FEE_SCHEDULE[type]
           pct == amount * feeConfig.rate
           calculatedFee ==
             CASE feeConfig.type = "FIXED" -> feeConfig.rate * 1000
               [] feeConfig.type = "PERCENTAGE_MIN_MAX" ->
                    LET lo == IF pct < feeConfig.min * 1000
                              THEN feeConfig.min * 1000 ELSE pct
                    IN  lo
               [] feeConfig.type = "PERCENTAGE_MIN" ->
                    IF pct < feeConfig.min * 1000
                    THEN feeConfig.min * 1000 ELSE pct
               [] OTHER -> 0
       IN  ToFixed2(calculatedFee)

\* rate is the schedule's rate times 1000, so amount * rate is in 1/1000 mill
calculateAndApplyFee(type, amount) ==
  IF type \notin DOMAIN FEE_SCHEDULE THEN 0
  ELSE LET feeConfig == FEE_SCHEDULE[type]
           pct == amount * feeConfig.rate
           calculatedFee ==
             CASE feeConfig.type = "FIXED" -> feeConfig.rate * 1000
               [] feeConfig.type = "PERCENTAGE_MIN_MAX" ->
                    LET lo == IF pct < feeConfig.min * 1000
                              THEN feeConfig.min * 1000 ELSE pct
                    IN  IF lo > feeConfig.max * 1000
                        THEN feeConfig.max * 1000 ELSE lo
               [] feeConfig.type = "PERCENTAGE_MIN" ->
                    IF pct < feeConfig.min * 1000
                    THEN feeConfig.min * 1000 ELSE pct
               [] OTHER -> 0
       IN  ToFixed2(calculatedFee)

\* FEE_SCHEDULE[transaction_type]?.code ; "" is undefined
FeeCodeOf(type) ==
  IF type \in DOMAIN FEE_SCHEDULE THEN FEE_SCHEDULE[type].code ELSE ""

\* getExchangeRate with the bug of taking an unknown currency at par
getExchangeRateAtPar(fromCurrency, toCurrency) ==
  IF fromCurrency = toCurrency THEN 100
  ELSE IF fromCurrency = "USD" /\ toCurrency = BASE_CURRENCY THEN 1850
  ELSE IF fromCurrency = "EUR" /\ toCurrency = BASE_CURRENCY THEN 2000
  ELSE 100

\* the rate times 100; 0 is null
getExchangeRate(fromCurrency, toCurrency) ==
  IF fromCurrency = toCurrency THEN 100
  ELSE IF fromCurrency = "USD" /\ toCurrency = BASE_CURRENCY THEN 1850
  ELSE IF fromCurrency = "EUR" /\ toCurrency = BASE_CURRENCY THEN 2000
  ELSE 0

isCardExpired(expiryDate) == FALSE

\* the values a DECIMAL(.,2) column can hold after storing v mills
Decimal2(v) ==
  LET lo == v - (v % 10)
  IN  IF v % 10 = 0 THEN {v}
      ELSE IF v % 10 < 5 THEN {lo}
      ELSE IF v % 10 > 5 THEN {lo + 10}
      ELSE {lo, lo + 10}

\* ------------------------------------------------------------------ state
VARIABLES
  accounts,       \* table accounts: committed rows, by account_number
  cards,          \* table cards: committed rows, by exid
  fee_ledger,     \* table fee_ledger: committed rows, in insertion order
  fees_schedule,  \* table fees_schedule: rows [fee_id, fee_code]
  rowLock,        \* accounts row -> the request whose transaction locks it, 0 if none
  pool,           \* dbConnection: connections opened, entries of the free list
  req,            \* per request in flight: position, locals, transaction, response
  nreq,           \* requests received so far
  approved,       \* history: the Approved responses sent, in order
  deposited,      \* history: account -> sum of the deposits answered with success
  body            \* history, kept by SpecIn only: req.body of the request in flight

vars == <<accounts, cards, fee_ledger, fees_schedule, rowLock, pool, req, nreq,
          approved, deposited, body>>

NoTx == [account |-> <<>>, cards |-> {}, stored |-> 0, fee |-> <<>>,
         statusCards |-> {}, cardStatus |-> ""]
NoResp == [code |-> 0, response |-> "", reason |-> "", balance |-> 0,
           amount_debited |-> 0, fee_amount |-> 0, total_debit |-> 0]
Idle == [pc |-> "idle", op |-> "", stage |-> "", account |-> "none",
         amount |-> 0, conv |-> 0, fee |-> 0, feeCode |-> "", newBalance |-> 0,
         authData |-> <<>>, tx |-> NoTx, txOpen |-> FALSE, conn |-> "none",
         resp |-> NoResp, pre |-> <<>>, arg |-> <<>>]

CardsOf(a) == {k \in DOMAIN cards : cards[k].account_number = a}

\* the rows of fees_schedule; the table is filled by hand
FullFeesSchedule ==
  {[fee_id |-> 1, fee_code |-> "ATM_WDL_FEE"],
   [fee_id |-> 2, fee_code |-> "BILL_PAY_FEE"],
   [fee_id |-> 3, fee_code |-> "EXCHANGE_CTRL_FEE"]}

\* the same without a row for the fee code of the two international types
PartFeesSchedule == {f \in FullFeesSchedule : f.fee_code # "EXCHANGE_CTRL_FEE"}

InitBalance(a) == IF a = "A1" THEN 1000000 ELSE 200000

\* the cvv of the cards the tables start with
SeedCvv == "123"

\* A1 is Active with 1000.00 and cards K1..K4, of which K2 is past its expiry,
\* K3 is Blocked (block code B) and K4 has limit_amount 0; A2 is Frozen with
\* 200.00, K5 and K6, which is Blocked (block code T); a block_code is NULL or
\* <<code>>
InitTables(dailyLimits, schedules) ==
  /\ \E dl \in dailyLimits :
       accounts =
         [a \in Accounts |->
            IF a = "A1"
            THEN [balance |-> InitBalance(a), status |-> "Active",
                  daily_spent |-> 0, daily_limit |-> dl]
            ELSE [balance |-> InitBalance(a), status |-> "Frozen",
                  daily_spent |-> 0, daily_limit |-> NULL]]
  /\ cards =
       [k \in Cards |->
          [account_number |-> IF k \in {"K5", "K6"} THEN "A2" ELSE "A1",
           balance |-> InitBalance(IF k \in {"K5", "K6"} THEN "A2" ELSE "A1"),
           status |-> IF k \in {"K3", "K6"} THEN "Blocked" ELSE "Active",
           expiry |-> IF k = "K2" THEN Now - 1 ELSE Now + 12,
           limit_amount |-> IF k = "K4" THEN 0 ELSE 800000,
           pan |-> IF k = "K1" THEN PanK1 ELSE PanOther,
           pvv |-> NULL, pin_set |-> "no",
           cvv |-> SeedCvv,
           block_code |-> IF k = "K3" THEN <<"B">>
                          ELSE IF k = "K6" THEN <<"T">> ELSE NULL]]
  /\ fee_ledger = <<>>
  /\ fees_schedule \in schedules
  /\ rowLock = [a \in Accounts |-> 0]
  /\ pool = [all |-> 0, free |-> 0]
  /\ req = [r \in Reqs |-> Idle]
  /\ nreq = 0
  /\ approved = <<>>
  /\ deposited = [a \in Accounts |-> 0]
  /\ body = <<>>

\* ----------------------------------------------------- connection pool
\* pool.getConnection(): a free entry if there is one, else a new connection
GetConnection(p) ==
  IF p.free > 0 THEN [p EXCEPT !.free = @ - 1] ELSE [p EXCEPT !.all = @ + 1]

\* connection.release(): the connection is pushed onto the free list
Release(p) == [p EXCEPT !.free = @ + 1]

\* ------------------------------------------------------------- helpers
\* what request r will be compared with: the rows of its account at its start
Snapshot(a) ==
  IF a \notin Accounts THEN <<>>
  ELSE [balance |-> accounts[a].balance, daily_spent |-> accounts[a].daily_spent,
        cards |-> [k \in CardsOf(a) |-> cards[k].balance],
        fee_ledger |-> fee_ledger]

\* request r starts as rec on account a, and what it found there is kept in
\* pre; the requests in flight are numbered in the order of their arrival
CanStart(r) ==
  /\ req[r].pc = "idle"
  /\ \A o \in Reqs : o < r => req[o].pc # "idle"

Start(r, rec, a) ==
  /\ nreq' = nreq + 1
  /\ req' = [req EXCEPT ![r] = [rec EXCEPT !.account = a, !.pre = Snapshot(a)]]

Declined(code, reason) ==
  [NoResp EXCEPT !.code = code, !.response = "Declined", !.reason = reason]

\* getAuthData: the join of cards and accounts on the committed rows, with the
\* DECIMAL columns passed through parseFloat; <<>> is null
getAuthData(externalId) ==
  IF externalId \notin DOMAIN cards THEN <<>>
  ELSE LET c == cards[externalId]
           a == accounts[c.account_number]
       IN  [account_number |-> c.account_number, balance |-> a.balance,
            account_status |-> a.status, daily_spent |-> a.daily_spent,
            daily_limit |-> a.daily_limit, card_status |-> c.status,
            expiry |-> c.expiry, limit_amount |-> c.limit_amount]

\* authData.daily_limit || authData.limit_amount : NaN and 0 are falsy
EffectiveLimit(authData) ==
  IF authData.daily_limit = NULL \/ authData.daily_limit[1] = 0
  THEN authData.limit_amount
  ELSE authData.daily_limit[1]

\* COMMIT: the writes of transaction t become the committed rows
Commit(r, t) ==
  /\ accounts' =
       IF t.account = <<>> THEN accounts
       ELSE [accounts EXCEPT ![req[r].account] =
               [f \in DOMAIN @ |->
                  IF f \in DOMAIN t.account THEN t.account[f] ELSE @[f]]]
  /\ cards' = [k \in DOMAIN cards |->
                 [cards[k] EXCEPT
                    !.balance = IF k \in t.cards THEN t.stored ELSE @,
                    !.status = IF k \in t.statusCards THEN t.cardStatus ELSE @]]
  /\ fee_ledger' = IF t.fee = <<>> THEN fee_ledger ELSE Append(fee_ledger, t.fee)
  /\ rowLock' = [a \in Accounts |-> IF rowLock[a] = r THEN 0 ELSE rowLock[a]]

\* Rollback with the bug of ending the transaction by a commit
RollbackCommits(r) == Commit(r, req[r].tx)

\* ROLLBACK: the transaction's writes are dropped and its row locks released
Rollback(r) ==
  /\ rowLock' = [a \in Accounts |-> IF rowLock[a] = r THEN 0 ELSE rowLock[a]]
  /\ UNCHANGED <<accounts, cards, fee_ledger>>

\* ------------------------------------------- POST /api/v1/auth/authorize
\* Checks with the bug of holding the total debit, fee included, against the
\* limit
ChecksLimitOnTotal(authData, amountInBaseCurrency, totalDebitAmount) ==
  LET effectiveLimit == EffectiveLimit(authData)
  IN  IF authData.account_status # "Active" \/ authData.card_status # "Active"
      THEN IF authData.account_status # "Active"
           THEN authData.account_status ELSE authData.card_status
      ELSE IF isCardExpired(authData.expiry) THEN "Expired"
      ELSE IF authData.balance < totalDebitAmount THEN "InsufficientFunds"
      ELSE IF effectiveLimit # 0
              /\ authData.daily_spent + totalDebitAmount > effectiveLimit
      THEN "ExceedsLimit"
      ELSE ""

\* --- 3. Status and Limit Checks ---: the reason of the first check that
\* fails, "" when all pass
Checks(authData, amountInBaseCurrency, totalDebitAmount) ==
  LET effectiveLimit == EffectiveLimit(authData)
  IN  IF authData.account_status # "Active" \/ authData.card_status # "Active"
      THEN IF authData.account_status # "Active"
           THEN authData.account_status ELSE authData.card_status
      ELSE IF isCardExpired(authData.expiry) THEN "Expired"
      ELSE IF authData.balance < totalDebitAmount THEN "InsufficientFunds"
      ELSE IF effectiveLimit # 0
              /\ authData.daily_spent + amountInBaseCurrency > effectiveLimit
      THEN "ExceedsLimit"
      ELSE ""

\* the check that produced a decline reason
StageOf(reason) ==
  CASE reason = "Expired" -> "expiry"
    [] reason = "InsufficientFunds" -> "funds"
    [] reason = "ExceedsLimit" -> "limit"
    [] OTHER -> "status"

\* The handler from the request to its first write: validation, getConnection,
\* beginTransaction, getAuthData, the inquiry branch, conversion, fee and the
\* status, expiry, funds and limit checks.  dbFails: the lookup query throws.
AuthorizeRequest(r, transaction_type, external_id, amount, currency_code, dbFails) ==
  /\ CanStart(r)
  /\ UNCHANGED <<fees_schedule, approved, deposited>>
  /\ LET amountValue == amount
         base == [Idle EXCEPT !.op = "authorize"]
         authData == getAuthData(external_id)
         acct == IF authData = <<>> THEN "none" ELSE authData.account_number
         \* rollback and return from inside try: the finally block is next
         Return(rec, stage, resp) ==
           /\ Rollback(r)
           /\ Start(r, [rec EXCEPT !.pc = "finally", !.conn = "held",
                                   !.txOpen = FALSE, !.resp = resp,
                                   !.stage = stage], acct)
     IN
     IF transaction_type = "" \/ external_id = "" \/ isNaN(amountValue)
        \/ amountValue <= 0 \/ currency_code = ""
     THEN /\ Start(r, [base EXCEPT !.pc = "end", !.stage = "validation",
                         !.resp = Declined(400, "Invalid Request Data")], "none")
          /\ UNCHANGED <<accounts, cards, fee_ledger, rowLock, pool>>
     ELSE
       /\ pool' = IF ~dbFails /\ authData # <<>>
                     /\ transaction_type = "ATM_Balance_Inquiry"
                  THEN Release(GetConnection(pool)) ELSE GetConnection(pool)
       /\ IF dbFails
          THEN /\ Rollback(r)
               /\ Start(r, [base EXCEPT !.pc = "finally", !.conn = "held",
                      !.stage = "lookup",
                      !.resp = Declined(500, "Internal System Error")], "none")
          ELSE IF authData = <<>>
          THEN Return(base, "lookup", Declined(404, "Card/Account Not Found"))
          ELSE IF transaction_type = "ATM_Balance_Inquiry"
          THEN /\ Start(r, [base EXCEPT !.pc = "finally", !.conn = "released",
                      !.txOpen = TRUE, !.stage = "inquiry",
                      !.resp = [NoResp EXCEPT !.code = 200, !.response = "Balance",
                                              !.balance = authData.balance]], acct)
               /\ UNCHANGED <<accounts, cards, fee_ledger, rowLock>>
          ELSE
            LET fxRate == getExchangeRate(currency_code, BASE_CURRENCY)
                amountInBaseCurrency ==
                  IF currency_code # BASE_CURRENCY
                  THEN (amountValue * fxRate) \div 100 ELSE amountValue
                totalFee == calculateAndApplyFee(transaction_type, amountInBaseCurrency)
                totalDebitAmount == amountInBaseCurrency + totalFee
                feeCode == FeeCodeOf(transaction_type)
                reason == Checks(authData, amountInBaseCurrency, totalDebitAmount)
                rec == [base EXCEPT !.conv = amountInBaseCurrency, !.fee = totalFee,
                                    !.feeCode = feeCode, !.authData = authData]
            IN
            IF currency_code # BASE_CURRENCY /\ fxRate = 0
            THEN Return(base, "fx", Declined(500, "FX_RATE_UNAVAILABLE"))
            ELSE IF reason # ""
            THEN Return(rec, StageOf(reason), Declined(403, reason))
            ELSE /\ Start(r, [rec EXCEPT !.pc = "updAccounts", !.conn = "held",
                                !.txOpen = TRUE, !.stage = "approved",
                                !.newBalance = authData.balance - totalDebitAmount],
                          acct)
                 /\ UNCHANGED <<accounts, cards, fee_ledger, rowLock>>

\* AuthUpdateAccounts with the bug of SET balance = balance - ?, the debit
\* taken from the row as it is at the update
AuthUpdateAccountsRelative(r) ==
  /\ req[r].pc = "updAccounts"
  /\ LET a == req[r].account
     IN  /\ rowLock[a] \in {0, r}
         /\ rowLock' = [rowLock EXCEPT ![a] = r]
         /\ \E b \in Decimal2(accounts[a].balance - (req[r].conv + req[r].fee)),
               s \in Decimal2(accounts[a].daily_spent + req[r].conv) :
              req' = [req EXCEPT ![r].pc = "updCards", ![r].authData = <<>>,
                                 ![r].tx.account = [balance |-> b, daily_spent |-> s],
                                 ![r].tx.stored = b]
  /\ UNCHANGED <<accounts, cards, fee_ledger, fees_schedule, pool, nreq,
                 approved, deposited>>

\* a) UPDATE accounts SET balance = ?, daily_spent = daily_spent + ?
AuthUpdateAccounts(r) ==
  /\ req[r].pc = "updAccounts"
  /\ LET a == req[r].account
     IN  /\ rowLock[a] \in {0, r}
         /\ rowLock' = [rowLock EXCEPT ![a] = r]
         /\ \E b \in Decimal2(req[r].newBalance),
               s \in Decimal2(accounts[a].daily_spent + req[r].conv) :
              req' = [req EXCEPT ![r].pc = "updCards", ![r].authData = <<>>,
                                 ![r].tx.account = [balance |-> b, daily_spent |-> s],
                                 ![r].tx.stored = b]
  /\ UNCHANGED <<accounts, cards, fee_ledger, fees_schedule, pool, nreq,
                 approved, deposited>>

\* AuthUpdateCards with the bug of a WHERE clause that matches no card
AuthUpdateCardsNoRow(r) ==
  /\ req[r].pc = "updCards"
  /\ req' = [req EXCEPT ![r].pc = "logFee", ![r].tx.cards = {}]
  /\ UNCHANGED <<accounts, cards, fee_ledger, fees_schedule, rowLock, pool, nreq,
                 approved, deposited>>

\* b) UPDATE cards SET balance = ? WHERE account_number = ? ; the parameter is
\* the number written to accounts.balance, so the column holds the same cents
AuthUpdateCards(r) ==
  /\ req[r].pc = "updCards"
  /\ req' = [req EXCEPT ![r].pc = "logFee",
                        ![r].tx.cards = CardsOf(req[r].account)]
  /\ UNCHANGED <<accounts, cards, fee_ledger, fees_schedule, rowLock, pool, nreq,
                 approved, deposited>>

\* SELECT fee_id FROM fees_schedule WHERE fee_code = ? ; 0 is null
getFeeIdByCode(feeCode) ==
  IF feeCode = "" THEN 0
  ELSE LET rows == {f \in fees_schedule : f.fee_code = feeCode}
       IN  IF rows = {} THEN 0 ELSE (CHOOSE f \in rows : TRUE).fee_id

\* AuthLogFee with the bug of leaving the INSERT INTO fee_ledger out
AuthLogFeeNoInsert(r) ==
  /\ req[r].pc = "logFee"
  /\ req' = [req EXCEPT ![r].pc = "commit"]
  /\ UNCHANGED <<accounts, cards, fee_ledger, fees_schedule, rowLock, pool, nreq,
                 approved, deposited>>

\* c) the fee: lookup of the fee_id, then INSERT INTO fee_ledger
AuthLogFee(r) ==
  /\ req[r].pc = "logFee"
  /\ UNCHANGED <<accounts, cards, fee_ledger, fees_schedule, pool, nreq,
                 approved, deposited>>
  /\ IF req[r].fee > 0 /\ req[r].feeCode # ""
     THEN LET feeId == getFeeIdByCode(req[r].feeCode)
          IN  IF feeId = 0
              THEN /\ Rollback(r)
                   /\ req' = [req EXCEPT ![r].pc = "finally", ![r].tx = NoTx,
                                ![r].txOpen = FALSE,
                                ![r].resp = Declined(500, "FEE_SCHEDULE_MISSING_DB_ENTRY")]
              ELSE /\ req' = [req EXCEPT ![r].pc = "commit",
                                ![r].tx.fee =
                                  [fee_id |-> feeId,
                                   account_number |-> req[r].account,
                                   fee_code |-> req[r].feeCode,
                                   charged_amount |-> req[r].fee,
                                   status |-> "POSTED"]]
                   /\ UNCHANGED rowLock
     ELSE /\ req' = [req EXCEPT ![r].pc = "commit"]
          /\ UNCHANGED rowLock

\* AuthCommit with the bug of a funds check made after the commit, against
\* the balance the commit left
AuthCommitThenCheck(r) ==
  /\ req[r].pc = "commit"
  /\ Commit(r, req[r].tx)
  /\ req' = [req EXCEPT ![r].pc = "finally", ![r].tx = NoTx, ![r].txOpen = FALSE,
               ![r].resp =
                 IF req[r].newBalance < req[r].conv + req[r].fee
                 THEN Declined(403, "InsufficientFunds")
                 ELSE [NoResp EXCEPT !.code = 200, !.response = "Approved",
                         !.amount_debited = req[r].conv, !.fee_amount = req[r].fee,
                         !.total_debit = req[r].conv + req[r].fee,
                         !.balance = req[r].newBalance]]
  /\ approved' = approved
  /\ UNCHANGED <<fees_schedule, pool, nreq, deposited>>

\* connection.commit() and the Approved response
AuthCommit(r) ==
  /\ req[r].pc = "commit"
  /\ Commit(r, req[r].tx)
  /\ LET resp == [NoResp EXCEPT !.code = 200, !.response = "Approved",
                     !.amount_debited = req[r].conv, !.fee_amount = req[r].fee,
                     !.total_debit = req[r].conv + req[r].fee,
                     !.balance = req[r].newBalance]
     IN  /\ req' = [req EXCEPT ![r].pc = "finally", ![r].tx = NoTx,
                               ![r].txOpen = FALSE, ![r].resp = resp]
         /\ approved' = Append(approved,
                          [account_number |-> req[r].account,
                           fee_amount |-> resp.fee_amount,
                           total_debit |-> resp.total_debit])
  /\ UNCHANGED <<fees_schedule, pool, nreq, deposited>>

\* catch (e): a statement of the transaction throws; rollback and a 500
AuthCatch(r) ==
  /\ req[r].pc \in {"updAccounts", "updCards", "logFee", "commit"}
  /\ Rollback(r)
  /\ req' = [req EXCEPT ![r].pc = "finally", ![r].tx = NoTx, ![r].txOpen = FALSE,
                        ![r].resp = Declined(500, "Internal System Error")]
  /\ UNCHANGED <<fees_schedule, pool, nreq, approved, deposited>>

\* finally: connection.release(), also when the inquiry branch released already
AuthFinally(r) ==
  /\ req[r].pc = "finally"
  /\ req[r].op = "authorize"
  /\ pool' = Release(pool)
  /\ req' = [req EXCEPT ![r] = Idle]
  /\ UNCHANGED <<accounts, cards, fee_ledger, fees_schedule, rowLock, nreq,
                 approved, deposited>>

\* the 400 of the validation: the handler returned before its try block
AuthEnd(r) ==
  /\ req[r].pc = "end"
  /\ req[r].op = "authorize"
  /\ req' = [req EXCEPT ![r] = Idle]
  /\ UNCHANGED <<accounts, cards, fee_ledger, fees_schedule, rowLock, pool, nreq,
                 approved, deposited>>

\* -------------------------------------- POST /api/v1/funds/depositFunds
Rejected(code, reason) ==
  [NoResp EXCEPT !.code = code, !.response = "Rejected", !.reason = reason]

\* The route's validation, then performDeposit up to beginTransaction
DepositRequest(r, account_number, amount, currency_code) ==
  /\ CanStart(r)
  /\ UNCHANGED <<accounts, cards, fee_ledger, fees_schedule, rowLock, approved,
                 deposited>>
  /\ LET amountValue == amount
         base == [Idle EXCEPT !.op = "deposit"]
     IN
     IF account_number = "" \/ isNaN(amountValue) \/ amountValue <= 0
        \/ currency_code = ""
     THEN /\ Start(r, [base EXCEPT !.pc = "end",
                         !.resp = Rejected(400, "Missing mandatory fields.")], "none")
          /\ UNCHANGED pool
     ELSE IF currency_code # BASE_CURRENCY
     THEN /\ Start(r, [base EXCEPT !.pc = "end",
                         !.resp = Rejected(500, "Internal System Error")], "none")
          /\ UNCHANGED pool
     ELSE /\ pool' = GetConnection(pool)
          /\ Start(r, [base EXCEPT !.pc = "depUpdAccounts", !.conn = "held",
                                   !.txOpen = TRUE, !.amount = amountValue],
                   account_number)

\* DepositUpdateAccounts with the bug of SET balance = ?, the amount taking
\* the place of the balance
DepositUpdateAccountsSet(r) ==
  /\ req[r].pc = "depUpdAccounts"
  /\ UNCHANGED <<accounts, cards, fee_ledger, fees_schedule, pool, nreq,
                 approved, deposited>>
  /\ LET a == req[r].account
     IN  IF a \notin Accounts
         THEN /\ req' = [req EXCEPT ![r].pc = "depCheck"]
              /\ UNCHANGED rowLock
         ELSE /\ rowLock[a] \in {0, r}
              /\ IF accounts[a].status # "Active"
                 THEN /\ req' = [req EXCEPT ![r].pc = "depCheck"]
                      /\ UNCHANGED rowLock
                 ELSE /\ rowLock' = [rowLock EXCEPT ![a] = r]
                      /\ \E b \in Decimal2(req[r].amount) :
                           req' = [req EXCEPT ![r].pc = "depSyncCards",
                                              ![r].tx.account = [balance |-> b]]

\* DepositUpdateAccounts with the bug of a WHERE clause without the status
DepositUpdateAccountsAnyStatus(r) ==
  /\ req[r].pc = "depUpdAccounts"
  /\ UNCHANGED <<accounts, cards, fee_ledger, fees_schedule, pool, nreq,
                 approved, deposited>>
  /\ LET a == req[r].account
     IN  IF a \notin Accounts
         THEN /\ req' = [req EXCEPT ![r].pc = "depCheck"]
              /\ UNCHANGED rowLock
         ELSE /\ rowLock[a] \in {0, r}
              /\ rowLock' = [rowLock EXCEPT ![a] = r]
              /\ \E b \in Decimal2(accounts[a].balance + req[r].amount) :
                   req' = [req EXCEPT ![r].pc = "depSyncCards",
                                      ![r].tx.account = [balance |-> b]]

\* DepositUpdateAccounts with the bug of counting the deposit as spending
DepositUpdateAccountsSpent(r) ==
  /\ req[r].pc = "depUpdAccounts"
  /\ UNCHANGED <<accounts, cards, fee_ledger, fees_schedule, pool, nreq,
                 approved, deposited>>
  /\ LET a == req[r].account
     IN  IF a \notin Accounts
         THEN /\ req' = [req EXCEPT ![r].pc = "depCheck"]
              /\ UNCHANGED rowLock
         ELSE /\ rowLock[a] \in {0, r}
              /\ IF accounts[a].status # "Active"
                 THEN /\ req' = [req EXCEPT ![r].pc = "depCheck"]
                      /\ UNCHANGED rowLock
                 ELSE /\ rowLock' = [rowLock EXCEPT ![a] = r]
                      /\ \E b \in Decimal2(accounts[a].balance + req[r].amount) :
                           req' = [req EXCEPT ![r].pc = "depSyncCards",
                                              ![r].tx.account =
                                                [balance |-> b,
                                                 daily_spent |->
                                                   accounts[a].daily_spent
                                                   + req[r].amount]]

\* 1. UPDATE accounts SET balance = balance + ? WHERE account_number = ? AND
\* status = 'Active': the statement waits for the row lock and reads the
\* committed row; with no row affected the handler goes on to its check
DepositUpdateAccounts(r) ==
  /\ req[r].pc = "depUpdAccounts"
  /\ UNCHANGED <<accounts, cards, fee_ledger, fees_schedule, pool, nreq,
                 approved, deposited>>
  /\ LET a == req[r].account
     IN  IF a \notin Accounts
         THEN /\ req' = [req EXCEPT ![r].pc = "depCheck"]
              /\ UNCHANGED rowLock
         ELSE /\ rowLock[a] \in {0, r}
              /\ IF accounts[a].status # "Active"
                 THEN /\ req' = [req EXCEPT ![r].pc = "depCheck"]
                      /\ UNCHANGED rowLock
                 ELSE /\ rowLock' = [rowLock EXCEPT ![a] = r]
                      /\ \E b \in Decimal2(accounts[a].balance + req[r].amount) :
                           req' = [req EXCEPT ![r].pc = "depSyncCards",
                                              ![r].tx.account = [balance |-> b]]

\* affectedRows === 0: SELECT status, rollback, and the reason by what the
\* SELECT found
DepositCheck(r) ==
  /\ req[r].pc = "depCheck"
  /\ Rollback(r)
  /\ LET a == req[r].account
         reason == IF a \notin Accounts THEN "Account not found."
                   ELSE IF accounts[a].status # "Active" THEN accounts[a].status
                   ELSE "Deposit failed, balance unchanged."
     IN  req' = [req EXCEPT ![r].pc = "finally", ![r].txOpen = FALSE,
                            ![r].resp = Rejected(403, reason)]
  /\ UNCHANGED <<fees_schedule, pool, nreq, approved, deposited>>

\* 2. SELECT balance, read inside the transaction; 3. UPDATE cards SET balance
DepositSyncCards(r) ==
  /\ req[r].pc = "depSyncCards"
  /\ LET newBalance == req[r].tx.account.balance
     IN  req' = [req EXCEPT ![r].pc = "depCommit", ![r].newBalance = newBalance,
                            ![r].tx.stored = newBalance,
                            ![r].tx.cards = CardsOf(req[r].account)]
  /\ UNCHANGED <<accounts, cards, fee_ledger, fees_schedule, rowLock, pool, nreq,
                 approved, deposited>>

\* connection.commit() and the success result
DepositCommit(r) ==
  /\ req[r].pc = "depCommit"
  /\ Commit(r, req[r].tx)
  /\ req' = [req EXCEPT ![r].pc = "finally", ![r].tx = NoTx, ![r].txOpen = FALSE,
               ![r].resp = [NoResp EXCEPT !.code = 200, !.response = "Deposited",
                                          !.reason = "Deposit successful.",
                                          !.balance = req[r].newBalance]]
  /\ deposited' = [deposited EXCEPT ![req[r].account] = @ + req[r].amount]
  /\ UNCHANGED <<fees_schedule, pool, nreq, approved>>

\* catch (e) of performDeposit: rollback, rethrow, the route's 500
DepositCatch(r) ==
  /\ req[r].pc \in {"depUpdAccounts", "depCheck", "depSyncCards", "depCommit"}
  /\ Rollback(r)
  /\ req' = [req EXCEPT ![r].pc = "finally", ![r].tx = NoTx, ![r].txOpen = FALSE,
                        ![r].resp = Rejected(500, "Internal System Error")]
  /\ UNCHANGED <<fees_schedule, pool, nreq, approved, deposited>>

\* finally of performDeposit: connection.release()
DepositFinally(r) ==
  /\ req[r].pc = "finally"
  /\ req[r].op = "deposit"
  /\ pool' = Release(pool)
  /\ req' = [req EXCEPT ![r] = Idle]
  /\ UNCHANGED <<accounts, cards, fee_ledger, fees_schedule, rowLock, nreq,
                 approved, deposited>>

\* the 400 of the route and the 500 of a non-base currency: no connection
DepositEnd(r) ==
  /\ req[r].pc = "end"
  /\ req[r].op = "deposit"
  /\ req' = [req EXCEPT ![r] = Idle]
  /\ UNCHANGED <<accounts, cards, fee_ledger, fees_schedule, rowLock, pool, nreq,
                 approved, deposited>>

\* ------------------------------------- POST /api/v1/update/updateStatus
allowedStatuses == {"Active", "Frozen", "Closed"}

\* what a cards.status column holds after SET status = v: a value outside the
\* ENUM is stored as '' when the server is not in strict mode
CardStatusValue(v) == IF v \in CardStatuses THEN v ELSE ""

Updated == [NoResp EXCEPT !.code = 200, !.response = "Updated",
                          !.reason = "Status update successful."]

\* validation, getConnection, beginTransaction
UpdateStatusRequest(r, account_number, exid, new_status) ==
  /\ CanStart(r)
  /\ UNCHANGED <<accounts, cards, fee_ledger, fees_schedule, rowLock, approved,
                 deposited>>
  /\ LET base == [Idle EXCEPT !.op = "updateStatus"]
     IN
     IF new_status = "" \/ new_status \notin allowedStatuses
     THEN /\ Start(r, [base EXCEPT !.pc = "end",
                         !.resp = Rejected(400, "new_status is invalid.")], "none")
          /\ UNCHANGED pool
     ELSE IF account_number = "" /\ exid = ""
     THEN /\ Start(r, [base EXCEPT !.pc = "end",
                         !.resp = Rejected(400, "Must provide either account_number or exid.")],
                   "none")
          /\ UNCHANGED pool
     ELSE /\ pool' = GetConnection(pool)
          /\ Start(r, [base EXCEPT
                         !.pc = IF account_number # "" THEN "usAccount" ELSE "usCard",
                         !.conn = "held", !.txOpen = TRUE,
                         !.arg = [account_number |-> account_number, exid |-> exid,
                                  new_status |-> new_status,
                                  accountUpdatePerformed |-> FALSE,
                                  cardUpdatePerformed |-> FALSE]],
                   IF account_number = "" THEN "none" ELSE account_number)

\* 1. UPDATE accounts SET status = ? and the UPDATE cards SET status = ? of
\* the account's cards; strict: the server rejects a value outside the ENUM of
\* cards.status, and the handler's catch rolls back
UpdateStatusAccount(r, strict) ==
  /\ req[r].pc = "usAccount"
  /\ UNCHANGED <<accounts, cards, fee_ledger, fees_schedule, pool, nreq,
                 approved, deposited>>
  /\ LET a == req[r].arg.account_number
         new == req[r].arg.new_status
     IN  IF a \notin Accounts
         THEN /\ Rollback(r)
              /\ req' = [req EXCEPT ![r].pc = "finally", ![r].tx = NoTx,
                           ![r].txOpen = FALSE,
                           ![r].resp = Rejected(404, "Account not found.")]
         ELSE /\ rowLock[a] \in {0, r}
              /\ IF new \notin CardStatuses /\ CardsOf(a) # {} /\ strict
                 THEN /\ Rollback(r)
                      /\ req' = [req EXCEPT ![r].pc = "finally", ![r].tx = NoTx,
                                   ![r].txOpen = FALSE,
                                   ![r].resp = Rejected(500, "Database or server error")]
                 ELSE /\ rowLock' = [rowLock EXCEPT ![a] = r]
                      /\ req' = [req EXCEPT
                                   ![r].pc = IF req[r].arg.exid # "" THEN "usCard"
                                             ELSE "usCommit",
                                   ![r].tx.account = [status |-> new],
                                   ![r].tx.statusCards = CardsOf(a),
                                   ![r].tx.cardStatus = CardStatusValue(new),
                                   ![r].arg.accountUpdatePerformed = TRUE]

\* 2. UPDATE cards SET status = ? WHERE exid = ?
UpdateStatusCard(r, strict) ==
  /\ req[r].pc = "usCard"
  /\ UNCHANGED <<accounts, cards, fee_ledger, fees_schedule, pool, nreq,
                 approved, deposited>>
  /\ LET k == req[r].arg.exid
         new == req[r].arg.new_status
     IN  IF k \notin DOMAIN cards
         THEN /\ Rollback(r)
              /\ req' = [req EXCEPT ![r].pc = "finally", ![r].tx = NoTx,
                           ![r].txOpen = FALSE,
                           ![r].resp = Rejected(404, "Card not found.")]
         ELSE IF new \notin CardStatuses /\ strict
         THEN /\ Rollback(r)
              /\ req' = [req EXCEPT ![r].pc = "finally", ![r].tx = NoTx,
                           ![r].txOpen = FALSE,
                           ![r].resp = Rejected(500, "Database or server error")]
         ELSE /\ req' = [req EXCEPT ![r].pc = "usCommit",
                           ![r].tx.statusCards = @ \cup {k},
                           ![r].tx.cardStatus = CardStatusValue(new),
                           ![r].arg.cardUpdatePerformed = TRUE]
              /\ UNCHANGED rowLock

\* the check that an update was performed, connection.commit(), the response
UpdateStatusCommit(r) ==
  /\ req[r].pc = "usCommit"
  /\ UNCHANGED <<fees_schedule, pool, nreq, approved, deposited>>
  /\ IF ~req[r].arg.accountUpdatePerformed /\ ~req[r].arg.cardUpdatePerformed
     THEN /\ Rollback(r)
          /\ req' = [req EXCEPT ![r].pc = "finally", ![r].tx = NoTx,
                       ![r].txOpen = FALSE,
                       ![r].resp = Rejected(400, "No updates were performed.")]
     ELSE /\ Commit(r, req[r].tx)
          /\ req' = [req EXCEPT ![r].pc = "finally", ![r].tx = NoTx,
                       ![r].txOpen = FALSE, ![r].resp = Updated]

\* catch (e): a statement of the transaction throws; rollback and a 500
UpdateStatusCatch(r) ==
  /\ req[r].pc \in {"usAccount", "usCard", "usCommit"}
  /\ Rollback(r)
  /\ req' = [req EXCEPT ![r].pc = "finally", ![r].tx = NoTx, ![r].txOpen = FALSE,
                        ![r].resp = Rejected(500, "Database or server error")]
  /\ UNCHANGED <<fees_schedule, pool, nreq, approved, deposited>>

\* finally: connection.release()
UpdateStatusFinally(r) ==
  /\ req[r].pc = "finally"
  /\ req[r].op = "updateStatus"
  /\ pool' = Release(pool)
  /\ req' = [req EXCEPT ![r] = Idle]
  /\ UNCHANGED <<accounts, cards, fee_ledger, fees_schedule, rowLock, nreq,
                 approved, deposited>>

\* the 400 of the validation: the handler returned before its try block
UpdateStatusEnd(r) ==
  /\ req[r].pc = "end"
  /\ req[r].op = "updateStatus"
  /\ req' = [req EXCEPT ![r] = Idle]
  /\ UNCHANGED <<accounts, cards, fee_ledger, fees_schedule, rowLock, pool, nreq,
                 approved, deposited>>

\* ------------------------------------------------------- hsmSimulator.js
Digit == {"0", "1", "2", "3", "4", "5", "6", "7", "8", "9"}

\* String.prototype.slice(-n)
SliceLast(str, n) ==
  IF Len(str) <= n THEN str ELSE SubSeq(str, Len(str) - n + 1, Len(str))

\* Number.prototype.toString(16) of a number below 16; below 10 it is
\* toString() as well
ToString16(n) ==
  CASE n = 0 -> "0" [] n = 1 -> "1" [] n = 2 -> "2" [] n = 3 -> "3"
    [] n = 4 -> "4" [] n = 5 -> "5" [] n = 6 -> "6" [] n = 7 -> "7"
    [] n = 8 -> "8" [] n = 9 -> "9" [] n = 10 -> "a" [] n = 11 -> "b"
    [] n = 12 -> "c" [] n = 13 -> "d" [] n = 14 -> "e" [] n = 15 -> "f"

\* the name of the master key, as deriveEmvSessionKey appends it to the PAN
MK_AC_Name == <<"M", "K", "_", "A", "C">>

\* Date.now().toString(): the clock counts the milliseconds after
\* 1700000000000, fewer than ten
NowString(now) == <<"1", "7", "0", "0", "0", "0", "0", "0", "0", "0", "0", "0">> \o <<ToString16(now)>>

\* the first 32 characters of the upper-case hex HMAC-SHA256 of data under
\* key + HASH_SALT, tabulated for the keys and the data of the model
mockCryptogram(key, data) ==
  CASE data = PanK1 \o Pin1234 ->
         <<"B", "6", "6", "4", "4", "4", "2", "F", "7", "F", "4", "B", "5", "E", "3", "C",
           "0", "3", "F", "0", "9", "0", "4", "B", "3", "E", "0", "8", "0", "B", "1", "4">>
    [] data = PanK1 \o Pin5705 ->
         <<"D", "C", "1", "B", "1", "D", "1", "1", "3", "6", "0", "E", "7", "D", "B", "6",
           "B", "B", "4", "E", "F", "A", "6", "4", "E", "9", "B", "9", "4", "5", "4", "B">>
    [] data = PanOther \o Pin1234 ->
         <<"6", "D", "8", "7", "7", "B", "F", "B", "C", "B", "B", "1", "9", "8", "5", "B",
           "5", "0", "B", "A", "E", "2", "5", "B", "7", "2", "F", "F", "7", "F", "F", "A">>
    [] data = PanOther \o Pin5705 ->
         <<"C", "B", "A", "7", "1", "4", "4", "5", "4", "7", "B", "C", "0", "6", "E", "8",
           "0", "F", "D", "4", "E", "1", "3", "0", "3", "B", "8", "3", "9", "0", "C", "E">>
    [] data = PanK1 \o MK_AC_Name /\ key = "MK_AC" ->
         <<"9", "9", "F", "7", "2", "E", "A", "6", "0", "C", "9", "5", "8", "B", "4", "4",
           "D", "3", "6", "B", "5", "A", "2", "1", "7", "1", "3", "7", "5", "6", "3", "2">>
    [] data = PanOther \o MK_AC_Name /\ key = "MK_AC" ->
         <<"B", "2", "4", "B", "B", "D", "5", "2", "F", "9", "9", "A", "1", "0", "F", "4",
           "E", "F", "A", "9", "2", "1", "5", "3", "7", "2", "E", "0", "E", "8", "3", "5">>
    [] data = PanK1 \o NowString(0)
         /\ key = <<"9", "9", "F", "7", "2", "E", "A", "6", "0", "C", "9", "5", "8", "B", "4", "4",
                 "D", "3", "6", "B", "5", "A", "2", "1", "7", "1", "3", "7", "5", "6", "3", "2">> ->
         <<"8", "F", "B", "B", "B", "4", "0", "D", "1", "2", "8", "D", "4", "A", "7", "5",
           "F", "B", "8", "8", "D", "8", "1", "C", "1", "B", "9", "A", "4", "2", "A", "8">>
    [] data = PanK1 \o NowString(1)
         /\ key = <<"9", "9", "F", "7", "2", "E", "A", "6", "0", "C", "9", "5", "8", "B", "4", "4",
                 "D", "3", "6", "B", "5", "A", "2", "1", "7", "1", "3", "7", "5", "6", "3", "2">> ->
         <<"B", "1", "0", "9", "2", "C", "D", "1", "1", "6", "6", "0", "0", "0", "3", "7",
           "1", "9", "B", "0", "9", "2", "B", "C", "0", "3", "7", "A", "D", "F", "7", "3">>
    [] data = PanK1 \o NowString(2)
         /\ key = <<"9", "9", "F", "7", "2", "E", "A", "6", "0", "C", "9", "5", "8", "B", "4", "4",
                 "D", "3", "6", "B", "5", "A", "2", "1", "7", "1", "3", "7", "5", "6", "3", "2">> ->
         <<"2", "E", "D", "9", "C", "E", "C", "2", "4", "5", "8", "7", "C", "A", "4", "B",
           "6", "C", "7", "B", "0", "3", "B", "D", "2", "4", "7", "6", "4", "D", "8", "3">>
    [] data = PanK1 \o NowString(3)
         /\ key = <<"9", "9", "F", "7", "2", "E", "A", "6", "0", "C", "9", "5", "8", "B", "4", "4",
                 "D", "3", "6", "B", "5", "A", "2", "1", "7", "1", "3", "7", "5", "6", "3", "2">> ->
         <<"8", "6", "B", "5", "F", "B", "3", "7", "8", "9", "8", "C", "4", "1", "5", "D",
           "A", "7", "D", "0", "E", "0", "4", "4", "3", "F", "5", "D", "F", "9", "E", "6">>
    [] data = PanK1 \o NowString(4)
         /\ key = <<"9", "9", "F", "7", "2", "E", "A", "6", "0", "C", "9", "5", "8", "B", "4", "4",
                 "D", "3", "6", "B", "5", "A", "2", "1", "7", "1", "3", "7", "5", "6", "3", "2">> ->
         <<"5", "5", "1", "0", "8", "F", "A", "7", "B", "6", "0", "A", "8", "8", "D", "F",
           "7", "4", "C", "C", "1", "9", "9", "B", "6", "C", "B", "0", "C", "1", "B", "2">>
    [] data = PanK1 \o NowString(5)
         /\ key = <<"9", "9", "F", "7", "2", "E", "A", "6", "0", "C", "9", "5", "8", "B", "4", "4",
                 "D", "3", "6", "B", "5", "A", "2", "1", "7", "1", "3", "7", "5", "6", "3", "2">> ->
         <<"9", "6", "F", "2", "E", "4", "E", "8", "4", "B", "8", "8", "6", "1", "A", "C",
           "4", "7", "6", "D", "2", "7", "9", "E", "8", "6", "C", "D", "7", "A", "A", "8">>
    [] data = PanK1 \o NowString(6)
         /\ key = <<"9", "9", "F", "7", "2", "E", "A", "6", "0", "C", "9", "5", "8", "B", "4", "4",
                 "D", "3", "6", "B", "5", "A", "2", "1", "7", "1", "3", "7", "5", "6", "3", "2">> ->
         <<"A", "B", "F", "2", "6", "E", "E", "D", "F", "E", "5", "9", "0", "D", "E", "1",
           "F", "5", "C", "F", "D", "F", "5", "0", "2", "0", "A", "B", "7", "3", "1", "1">>
    [] data = PanK1 \o NowString(7)
         /\ key = <<"9", "9", "F", "7", "2", "E", "A", "6", "0", "C", "9", "5", "8", "B", "4", "4",
                 "D", "3", "6", "B", "5", "A", "2", "1", "7", "1", "3", "7", "5", "6", "3", "2">> ->
         <<"4", "F", "A", "1", "9", "7", "A", "A", "5", "B", "7", "9", "E", "0", "C", "4",
           "4", "2", "3", "6", "4", "3", "8", "E", "D", "5", "B", "4", "6", "5", "D", "8">>
    [] data = PanK1 \o NowString(8)
         /\ key = <<"9", "9", "F", "7", "2", "E", "A", "6", "0", "C", "9", "5", "8", "B", "4", "4",
                 "D", "3", "6", "B", "5", "A", "2", "1", "7", "1", "3", "7", "5", "6", "3", "2">> ->
         <<"D", "0", "A", "5", "9", "3", "9", "E", "5", "E", "9", "4", "8", "A", "1", "7",
           "A", "9", "8", "6", "3", "D", "F", "A", "7", "1", "F", "C", "9", "2", "4", "8">>
    [] data = PanK1 \o NowString(9)
         /\ key = <<"9", "9", "F", "7", "2", "E", "A", "6", "0", "C", "9", "5", "8", "B", "4", "4",
                 "D", "3", "6", "B", "5", "A", "2", "1", "7", "1", "3", "7", "5", "6", "3", "2">> ->
         <<"3", "8", "E", "A", "E", "9", "3", "0", "9", "D", "0", "D", "1", "0", "B", "5",
           "8", "9", "A", "2", "A", "6", "6", "D", "D", "1", "D", "A", "6", "6", "3", "1">>
    [] data = PanOther \o NowString(0)
         /\ key = <<"B", "2", "4", "B", "B", "D", "5", "2", "F", "9", "9", "A", "1", "0", "F", "4",
                 "E", "F", "A", "9", "2", "1", "5", "3", "7", "2", "E", "0", "E", "8", "3", "5">> ->
         <<"1", "3", "F", "B", "B", "B", "1", "3", "0", "2", "2", "3", "D", "3", "5", "8",
           "2", "E", "B", "7", "A", "7", "7", "8", "F", "3", "3", "E", "7", "2", "1", "0">>
    [] data = PanOther \o NowString(1)
         /\ key = <<"B", "2", "4", "B", "B", "D", "5", "2", "F", "9", "9", "A", "1", "0", "F", "4",
                 "E", "F", "A", "9", "2", "1", "5", "3", "7", "2", "E", "0", "E", "8", "3", "5">> ->
         <<"5", "7", "1", "0", "F", "C", "9", "8", "6", "6", "E", "A", "A", "6", "E", "E",
           "A", "7", "E", "1", "9", "0", "E", "B", "1", "B", "F", "E", "E", "4", "8", "7">>
    [] data = PanOther \o NowString(2)
         /\ key = <<"B", "2", "4", "B", "B", "D", "5", "2", "F", "9", "9", "A", "1", "0", "F", "4",
                 "E", "F", "A", "9", "2", "1", "5", "3", "7", "2", "E", "0", "E", "8", "3", "5">> ->
         <<"E", "F", "8", "9", "A", "0", "4", "2", "D", "8", "8", "0", "F", "8", "F", "5",
           "C", "9", "2", "B", "7", "3", "A", "5", "4", "A", "9", "3", "2", "C", "B", "C">>
    [] data = PanOther \o NowString(3)
         /\ key = <<"B", "2", "4", "B", "B", "D", "5", "2", "F", "9", "9", "A", "1", "0", "F", "4",
                 "E", "F", "A", "9", "2", "1", "5", "3", "7", "2", "E", "0", "E", "8", "3", "5">> ->
         <<"2", "D", "C", "D", "C", "7", "2", "F", "2", "1", "7", "8", "E", "B", "4", "D",
           "F", "B", "8", "D", "D", "9", "1", "9", "A", "E", "5", "9", "3", "2", "C", "8">>
    [] data = PanOther \o NowString(4)
         /\ key = <<"B", "2", "4", "B", "B", "D", "5", "2", "F", "9", "9", "A", "1", "0", "F", "4",
                 "E", "F", "A", "9", "2", "1", "5", "3", "7", "2", "E", "0", "E", "8", "3", "5">> ->
         <<"4", "E", "E", "B", "6", "2", "0", "8", "F", "C", "A", "4", "5", "3", "6", "E",
           "8", "D", "F", "9", "5", "8", "3", "2", "4", "A", "5", "7", "F", "5", "8", "1">>
    [] data = PanOther \o NowString(5)
         /\ key = <<"B", "2", "4", "B", "B", "D", "5", "2", "F", "9", "9", "A", "1", "0", "F", "4",
                 "E", "F", "A", "9", "2", "1", "5", "3", "7", "2", "E", "0", "E", "8", "3", "5">> ->
         <<"7", "5", "7", "0", "9", "7", "D", "A", "6", "8", "A", "C", "5", "B", "3", "F",
           "4", "9", "F", "1", "B", "9", "0", "6", "7", "5", "5", "0", "5", "2", "D", "5">>
    [] data = PanOther \o NowString(6)
         /\ key = <<"B", "2", "4", "B", "B", "D", "5", "2", "F", "9", "9", "A", "1", "0", "F", "4",
                 "E", "F", "A", "9", "2", "1", "5", "3", "7", "2", "E", "0", "E", "8", "3", "5">> ->
         <<"6", "B", "0", "9", "0", "F", "5", "E", "0", "9", "B", "2", "8", "9", "6", "E",
           "0", "2", "1", "7", "A", "4", "0", "C", "1", "2", "7", "3", "A", "2", "E", "4">>
    [] data = PanOther \o NowString(7)
         /\ key = <<"B", "2", "4", "B", "B", "D", "5", "2", "F", "9", "9", "A", "1", "0", "F", "4",
                 "E", "F", "A", "9", "2", "1", "5", "3", "7", "2", "E", "0", "E", "8", "3", "5">> ->
         <<"D", "7", "8", "A", "4", "1", "0", "A", "1", "E", "F", "A", "F", "A", "A", "2",
           "A", "C", "4", "0", "D", "C", "4", "6", "A", "F", "0", "4", "C", "4", "8", "F">>
    [] data = PanOther \o NowString(8)
         /\ key = <<"B", "2", "4", "B", "B", "D", "5", "2", "F", "9", "9", "A", "1", "0", "F", "4",
                 "E", "F", "A", "9", "2", "1", "5", "3", "7", "2", "E", "0", "E", "8", "3", "5">> ->
         <<"F", "0", "F", "1", "D", "A", "0", "A", "0", "1", "C", "0", "8", "B", "8", "B",
           "1", "1", "2", "F", "5", "8", "9", "3", "8", "4", "C", "A", "1", "2", "A", "4">>
    [] data = PanOther \o NowString(9)
         /\ key = <<"B", "2", "4", "B", "B", "D", "5", "2", "F", "9", "9", "A", "1", "0", "F", "4",
                 "E", "F", "A", "9", "2", "1", "5", "3", "7", "2", "E", "0", "E", "8", "3", "5">> ->
         <<"B", "A", "2", "7", "8", "0", "F", "D", "A", "0", "5", "E", "C", "3", "5", "5",
           "B", "8", "9", "D", "7", "8", "4", "0", "C", "0", "7", "D", "8", "7", "9", "3">>

\* mockResult.replace(/\D/g, '')
DigitsOf(str) == SelectSeq(str, LAMBDA c : c \in Digit)

generatePvv(pan, pin) ==
  LET data == SliceLast(pan, 16) \o pin
      mockResult == mockCryptogram("PVK", data)
      digits == DigitsOf(mockResult)
  IN  IF Len(digits) < 4 THEN <<"1", "1", "1", "1">> ELSE SubSeq(digits, 1, 4)

\* String.prototype.padEnd(n, c)
PadEnd(str, n, c) ==
  IF Len(str) >= n THEN str
  ELSE [i \in 1..n |-> IF i <= Len(str) THEN str[i] ELSE c]

\* String.prototype.toUpperCase() on hex digits
ToUpperCase(str) ==
  [i \in 1..Len(str) |->
     CASE str[i] = "a" -> "A" [] str[i] = "b" -> "B" [] str[i] = "c" -> "C"
       [] str[i] = "d" -> "D" [] str[i] = "e" -> "E" [] str[i] = "f" -> "F"
       [] OTHER -> str[i]]

\* the two upper-case hex digits of the byte of an ASCII character
HexByte(c) ==
  CASE c \in Digit -> <<"3", c>>
    [] c = "-" -> <<"2", "D">>
    [] c = "A" -> <<"4", "1">> [] c = "B" -> <<"4", "2">>
    [] c = "C" -> <<"4", "3">> [] c = "D" -> <<"4", "4">>
    [] c = "E" -> <<"4", "5">> [] c = "F" -> <<"4", "6">>
    [] c = "P" -> <<"5", "0">>

\* Buffer.from(str).toString('hex').toUpperCase()
HexOf(str) ==
  [i \in 1..(2 * Len(str)) |-> HexByte(str[(i + 1) \div 2])[2 - (i % 2)]]

createPinBlock0(pin, pan) ==
  LET pinLength == ToString16(Len(pin))
      paddedPin == PadEnd(<<pinLength>> \o pin, 16, "F")
      panSlice == IF Len(pan) <= 1 THEN <<>>
                  ELSE SubSeq(pan, IF Len(pan) > 13 THEN Len(pan) - 12 ELSE 1,
                              Len(pan) - 1)
      pinBlockMock == <<"P", "B", "0", "-">> \o ToUpperCase(paddedPin)
                        \o <<"-">> \o panSlice
      hex == HexOf(pinBlockMock)
  IN  PadEnd(SubSeq(hex, 1, IF Len(hex) < 16 THEN Len(hex) ELSE 16), 16, "0")

deriveEmvSessionKey(masterKeyName, pan) ==
  mockCryptogram(masterKeyName, SliceLast(pan, 16) \o MK_AC_Name)

\* now is what Date.now() returns during the call
generateArqc(pan, now) ==
  LET sessionKey == deriveEmvSessionKey("MK_AC", pan)
      data == SliceLast(pan, 16) \o NowString(now)
  IN  SubSeq(mockCryptogram(sessionKey, data), 1, 16)

validateArqc(pan, arqcReceived, now) ==
  IF arqcReceived = <<>> \/ Len(arqcReceived) # 16 THEN FALSE
  ELSE LET arqcRecalculated == generateArqc(pan, now)
       IN  SubSeq(arqcReceived, 1, 8) = SubSeq(arqcRecalculated, 1, 8)

\* storedPvv must be a string: the length of null throws
verifyPinBlock(pan, pinBlock, storedPvv) ==
  LET mockDecryptionCheck == pinBlock # <<>> /\ pinBlock[1] \in {"8", "9", "A"}
      pvvCheck == Len(storedPvv) = 4 /\ storedPvv # <<"1", "1", "1", "1">>
  IN  mockDecryptionCheck /\ pvvCheck

\* ------------------------------------------------------ /api/v1/pin routes
isValidPin(pin) ==
  /\ Len(pin) \in 4..12
  /\ \A i \in 1..Len(pin) : pin[i] \in Digit

PinUpdated == [NoResp EXCEPT !.code = 200, !.response = "PinUpdated",
                 !.reason = "PIN successfully updated and securely stored."]

\* the lookup query threw outside every try block: no response is sent
Unanswered == [NoResp EXCEPT !.response = "Unanswered"]

\* PinSetRequest with the bug of leaving the pin_set check out
PinSetRequestNoCheck(r, external_id, clear_pin, lookupFails) ==
  /\ CanStart(r)
  /\ UNCHANGED <<accounts, cards, fee_ledger, fees_schedule, rowLock, pool,
                 approved, deposited>>
  /\ LET base == [Idle EXCEPT !.op = "setPin", !.pc = "end"]
     IN
     IF external_id = "" \/ clear_pin = <<>>
     THEN Start(r, [base EXCEPT !.resp = Rejected(400, "Missing mandatory fields.")],
                "none")
     ELSE IF ~isValidPin(clear_pin)
     THEN Start(r, [base EXCEPT !.resp = Rejected(400, "Invalid PIN format (4-12 digits).")],
                "none")
     ELSE IF lookupFails
     THEN Start(r, [base EXCEPT !.resp = Unanswered], "none")
     ELSE IF external_id \notin DOMAIN cards
     THEN Start(r, [base EXCEPT !.resp = Rejected(404, "Card not found for EXID.")], "none")
     ELSE
       LET c == cards[external_id]
           found == [external_id |-> external_id, pan |-> c.pan,
                     pin_set |-> c.pin_set, pvv |-> c.pvv, clear_pin |-> clear_pin,
                     current_pin_block |-> <<>>, newPVV |-> <<>>]
       IN  Start(r, [base EXCEPT !.pc = "updatePin",
                       !.arg = [found EXCEPT !.newPVV = generatePvv(c.pan, clear_pin)]],
                 "none")

\* PinSetRequest with the bug of running the lookup before the validation
PinSetRequestLookupFirst(r, external_id, clear_pin, lookupFails) ==
  /\ CanStart(r)
  /\ UNCHANGED <<accounts, cards, fee_ledger, fees_schedule, rowLock, pool,
                 approved, deposited>>
  /\ LET base == [Idle EXCEPT !.op = "setPin", !.pc = "end"]
     IN
     IF lookupFails
     THEN Start(r, [base EXCEPT !.resp = Unanswered], "none")
     ELSE IF external_id = "" \/ clear_pin = <<>>
     THEN Start(r, [base EXCEPT !.resp = Rejected(400, "Missing mandatory fields.")],
                "none")
     ELSE IF ~isValidPin(clear_pin)
     THEN Start(r, [base EXCEPT !.resp = Rejected(400, "Invalid PIN format (4-12 digits).")],
                "none")
     ELSE IF lookupFails
     THEN Start(r, [base EXCEPT !.resp = Unanswered], "none")
     ELSE IF external_id \notin DOMAIN cards
     THEN Start(r, [base EXCEPT !.resp = Rejected(404, "Card not found for EXID.")], "none")
     ELSE
       LET c == cards[external_id]
           found == [external_id |-> external_id, pan |-> c.pan,
                     pin_set |-> c.pin_set, pvv |-> c.pvv, clear_pin |-> clear_pin,
                     current_pin_block |-> <<>>, newPVV |-> <<>>]
       IN  IF c.pin_set = "yes"
           THEN Start(r, [base EXCEPT !.arg = found,
                            !.resp = Rejected(400, "PIN already set. Use /change instead.")],
                      "none")
           ELSE Start(r, [base EXCEPT !.pc = "updatePin",
                            !.arg = [found EXCEPT
                                       !.newPVV = generatePvv(c.pan, clear_pin)]],
                      "none")

\* POST /set up to updatePin's hsm.generatePvv: validation, lookup of pan and
\* pin_set, the pin_set check.  lookupFails: the lookup query throws.
PinSetRequest(r, external_id, clear_pin, lookupFails) ==
  /\ CanStart(r)
  /\ UNCHANGED <<accounts, cards, fee_ledger, fees_schedule, rowLock, pool,
                 approved, deposited>>
  /\ LET base == [Idle EXCEPT !.op = "setPin", !.pc = "end"]
     IN
     IF external_id = "" \/ clear_pin = <<>>
     THEN Start(r, [base EXCEPT !.resp = Rejected(400, "Missing mandatory fields.")],
                "none")
     ELSE IF ~isValidPin(clear_pin)
     THEN Start(r, [base EXCEPT !.resp = Rejected(400, "Invalid PIN format (4-12 digits).")],
                "none")
     ELSE IF lookupFails
     THEN Start(r, [base EXCEPT !.resp = Unanswered], "none")
     ELSE IF external_id \notin DOMAIN cards
     THEN Start(r, [base EXCEPT !.resp = Rejected(404, "Card not found for EXID.")], "none")
     ELSE
       LET c == cards[external_id]
           found == [external_id |-> external_id, pan |-> c.pan,
                     pin_set |-> c.pin_set, pvv |-> c.pvv, clear_pin |-> clear_pin,
                     current_pin_block |-> <<>>, newPVV |-> <<>>]
       IN  IF c.pin_set = "yes"
           THEN Start(r, [base EXCEPT !.arg = found,
                            !.resp = Rejected(400, "PIN already set. Use /change instead.")],
                      "none")
           ELSE Start(r, [base EXCEPT !.pc = "updatePin",
                            !.arg = [found EXCEPT
                                       !.newPVV = generatePvv(c.pan, clear_pin)]],
                      "none")

\* PinChangeRequest with the bug of going on to updatePin whatever the
\* verification says
PinChangeRequestNoVerify(r, external_id, current_pin_block, new_clear_pin, lookupFails) ==
  /\ CanStart(r)
  /\ UNCHANGED <<accounts, cards, fee_ledger, fees_schedule, rowLock, pool,
                 approved, deposited>>
  /\ LET base == [Idle EXCEPT !.op = "changePin", !.pc = "end"]
     IN
     IF external_id = "" \/ current_pin_block = <<>> \/ new_clear_pin = <<>>
     THEN Start(r, [base EXCEPT !.resp = Rejected(400, "Missing fields.")], "none")
     ELSE IF ~isValidPin(new_clear_pin)
     THEN Start(r, [base EXCEPT !.resp = Rejected(400, "Invalid new PIN format.")],
                "none")
     ELSE IF lookupFails
     THEN Start(r, [base EXCEPT !.resp = Unanswered], "none")
     ELSE IF external_id \notin DOMAIN cards
     THEN Start(r, [base EXCEPT !.resp = Rejected(404, "Card not found.")], "none")
     ELSE
       LET c == cards[external_id]
           found == [external_id |-> external_id, pan |-> c.pan,
                     pin_set |-> c.pin_set, pvv |-> c.pvv,
                     clear_pin |-> new_clear_pin,
                     current_pin_block |-> current_pin_block, newPVV |-> <<>>]
       IN  IF c.pin_set = "no"
           THEN Start(r, [base EXCEPT !.arg = found,
                            !.resp = Rejected(400, "PIN not set. Use /set first.")],
                      "none")
           ELSE IF c.pvv = NULL
           THEN Start(r, [base EXCEPT !.arg = found,
                            !.resp = Rejected(500, "HSM verification error.")],
                      "none")
           ELSE Start(r, [base EXCEPT !.pc = "updatePin",
                            !.arg = [found EXCEPT
                                       !.newPVV = generatePvv(c.pan, new_clear_pin)]],
                      "none")

\* POST /change up to updatePin's hsm.generatePvv: validation, lookup of pan,
\* pvv and pin_set, the pin_set check, hsm.verifyPinBlock
PinChangeRequest(r, external_id, current_pin_block, new_clear_pin, lookupFails) ==
  /\ CanStart(r)
  /\ UNCHANGED <<accounts, cards, fee_ledger, fees_schedule, rowLock, pool,
                 approved, deposited>>
  /\ LET base == [Idle EXCEPT !.op = "changePin", !.pc = "end"]
     IN
     IF external_id = "" \/ current_pin_block = <<>> \/ new_clear_pin = <<>>
     THEN Start(r, [base EXCEPT !.resp = Rejected(400, "Missing fields.")], "none")
     ELSE IF ~isValidPin(new_clear_pin)
     THEN Start(r, [base EXCEPT !.resp = Rejected(400, "Invalid new PIN format.")],
                "none")
     ELSE IF lookupFails
     THEN Start(r, [base EXCEPT !.resp = Unanswered], "none")
     ELSE IF external_id \notin DOMAIN cards
     THEN Start(r, [base EXCEPT !.resp = Rejected(404, "Card not found.")], "none")
     ELSE
       LET c == cards[external_id]
           found == [external_id |-> external_id, pan |-> c.pan,
                     pin_set |-> c.pin_set, pvv |-> c.pvv,
                     clear_pin |-> new_clear_pin,
                     current_pin_block |-> current_pin_block, newPVV |-> <<>>]
       IN  IF c.pin_set = "no"
           THEN Start(r, [base EXCEPT !.arg = found,
                            !.resp = Rejected(400, "PIN not set. Use /set first.")],
                      "none")
           ELSE IF c.pvv = NULL
           THEN Start(r, [base EXCEPT !.arg = found,
                            !.resp = Rejected(500, "HSM verification error.")],
                      "none")
           ELSE IF ~verifyPinBlock(c.pan, current_pin_block, c.pvv)
           THEN Start(r, [base EXCEPT !.arg = found,
                            !.resp = Rejected(401, "Incorrect current PIN.")],
                      "none")
           ELSE Start(r, [base EXCEPT !.pc = "updatePin",
                            !.arg = [found EXCEPT
                                       !.newPVV = generatePvv(c.pan, new_clear_pin)]],
                      "none")

PinVerified == [NoResp EXCEPT !.code = 200, !.response = "PinVerified",
                  !.reason = "PIN verified."]

\* PinVerifyRequest with the bug of leaving the status check out
PinVerifyRequestAnyStatus(r, external_id, current_pin_block, lookupFails) ==
  /\ CanStart(r)
  /\ UNCHANGED <<accounts, cards, fee_ledger, fees_schedule, rowLock, pool,
                 approved, deposited>>
  /\ LET base == [Idle EXCEPT !.op = "verifyPin", !.pc = "end"]
     IN
     IF external_id = "" \/ current_pin_block = <<>>
     THEN Start(r, [base EXCEPT !.resp = Rejected(400, "Missing mandatory fields.")],
                "none")
     ELSE IF lookupFails
     THEN Start(r, [base EXCEPT !.resp = Unanswered], "none")
     ELSE IF external_id \notin DOMAIN cards
     THEN Start(r, [base EXCEPT !.resp = Rejected(404, "Card not found.")], "none")
     ELSE
       LET c == cards[external_id]
           found == [external_id |-> external_id, pan |-> c.pan,
                     pin_set |-> "", pvv |-> c.pvv, clear_pin |-> <<>>,
                     current_pin_block |-> current_pin_block, newPVV |-> <<>>]
       IN  IF c.pvv = NULL
           THEN Start(r, [base EXCEPT !.arg = found,
                            !.resp = Rejected(500, "Secure processing error.")],
                      "none")
           ELSE IF verifyPinBlock(c.pan, current_pin_block, c.pvv)
           THEN Start(r, [base EXCEPT !.arg = found, !.resp = PinVerified], "none")
           ELSE Start(r, [base EXCEPT !.arg = found,
                            !.resp = Rejected(401, "Incorrect PIN.")],
                      "none")

\* POST /verify: validation, lookup of pan, pvv and status, the status check,
\* hsm.verifyPinBlock and the answer.  The route writes nothing.
PinVerifyRequest(r, external_id, current_pin_block, lookupFails) ==
  /\ CanStart(r)
  /\ UNCHANGED <<accounts, cards, fee_ledger, fees_schedule, rowLock, pool,
                 approved, deposited>>
  /\ LET base == [Idle EXCEPT !.op = "verifyPin", !.pc = "end"]
     IN
     IF external_id = "" \/ current_pin_block = <<>>
     THEN Start(r, [base EXCEPT !.resp = Rejected(400, "Missing mandatory fields.")],
                "none")
     ELSE IF lookupFails
     THEN Start(r, [base EXCEPT !.resp = Unanswered], "none")
     ELSE IF external_id \notin DOMAIN cards
     THEN Start(r, [base EXCEPT !.resp = Rejected(404, "Card not found.")], "none")
     ELSE
       LET c == cards[external_id]
           found == [external_id |-> external_id, pan |-> c.pan,
                     pin_set |-> "", pvv |-> c.pvv, clear_pin |-> <<>>,
                     current_pin_block |-> current_pin_block, newPVV |-> <<>>]
       IN  IF c.status # "Active"
           THEN Start(r, [base EXCEPT !.arg = found,
                            !.resp = Rejected(400, "Card status is not Active. Verification not allowed.")],
                      "none")
           ELSE IF c.pvv = NULL
           THEN Start(r, [base EXCEPT !.arg = found,
                            !.resp = Rejected(500, "Secure processing error.")],
                      "none")
           ELSE IF verifyPinBlock(c.pan, current_pin_block, c.pvv)
           THEN Start(r, [base EXCEPT !.arg = found, !.resp = PinVerified], "none")
           ELSE Start(r, [base EXCEPT !.arg = found,
                            !.resp = Rejected(401, "Incorrect PIN.")],
                      "none")

\* updatePin: UPDATE cards SET pin_set = 'yes', pvv = ? WHERE exid = ? on the
\* pool, and the response.  dbFails: the statement throws.
UpdatePin(r, dbFails) ==
  /\ req[r].pc = "updatePin"
  /\ UNCHANGED <<accounts, fee_ledger, fees_schedule, rowLock, pool, nreq,
                 approved, deposited>>
  /\ IF dbFails
     THEN /\ req' = [req EXCEPT ![r].pc = "end",
                       ![r].resp = Rejected(500, "Database error during PIN update.")]
          /\ UNCHANGED cards
     ELSE /\ cards' = [cards EXCEPT ![req[r].arg.external_id].pin_set = "yes",
                                    ![req[r].arg.external_id].pvv = req[r].arg.newPVV]
          /\ req' = [req EXCEPT ![r].pc = "end", ![r].resp = PinUpdated]

\* the handler has returned
PinEnd(r) ==
  /\ req[r].pc = "end"
  /\ req[r].op \in {"setPin", "changePin", "verifyPin"}
  /\ req' = [req EXCEPT ![r] = Idle]
  /\ UNCHANGED <<accounts, cards, fee_ledger, fees_schedule, rowLock, pool, nreq,
                 approved, deposited>>

\* ------------------------------------------------- CardCreate.js: cards
VALID_PRODUCT_CODES == {"CHQ-01", "SAV-02"}

\* generateExpiry(4): four years from the current month
generateExpiry(years) == Now + 12 * years

\* what an ENUM column holds after an assignment of v: the member that equals
\* v without regard to case
EnumValue(v) ==
  CASE v = "EXPIRED" -> "Expired"
    [] v = "BLOCKED" -> "Blocked"
    [] v = "REPLACED" -> "Replaced"
    [] v = "INACTIVE" -> "Inactive"
    [] OTHER -> v

\* block_code.toUpperCase() of the codes a request can carry
BlockCodeToUpperCase(block_code) ==
  CASE block_code = "t" -> "T"
    [] block_code = "active" -> "ACTIVE"
    [] OTHER -> block_code

CardAnswer(code, response) == [NoResp EXCEPT !.code = code, !.response = response]

\* the row an INSERT INTO cards of the two routes writes: balance, pvv and
\* block_code are not among its columns and take their defaults
InsertedCard(account_number, pan, cvv, expiry, status, limit_amount, pin_set) ==
  [account_number |-> account_number, balance |-> 0, status |-> EnumValue(status),
   expiry |-> expiry, limit_amount |-> limit_amount, pan |-> pan, pvv |-> NULL,
   pin_set |-> pin_set, cvv |-> cvv, block_code |-> NULL]

\* POST /api/v1/card/create; external_id and cvv are what generateEXID and
\* generateCVV return, fault the statement that throws
CardCreateRequest(r, account_number, product_code, emboss_name, limit_amount, external_id, cvv, fault) ==
  /\ CanStart(r)
  /\ UNCHANGED <<accounts, fee_ledger, fees_schedule, rowLock, pool, approved,
                 deposited>>
  /\ LET base == [Idle EXCEPT !.op = "cardCreate", !.pc = "end",
                    !.arg = [account_number |-> account_number,
                             external_id |-> external_id]]
         Reject(code, reason) ==
           /\ Start(r, [base EXCEPT !.resp = Rejected(code, reason)], "none")
           /\ UNCHANGED cards
     IN
     IF emboss_name = ""
     THEN Reject(400, "'emboss_name' is a mandatory field and cannot be empty.")
     ELSE IF product_code \notin VALID_PRODUCT_CODES
     THEN Reject(404, "Product Code not found or is invalid.")
     ELSE IF fault = "lookup"
     THEN Reject(500, "Internal System Error during account validation.")
     ELSE IF account_number \notin Accounts
     THEN Reject(404, "Account Number not found.")
     ELSE IF fault = "insert" \/ external_id \in DOMAIN cards
     THEN Reject(500, "Internal System Error during card creation.")
     ELSE /\ cards' = cards @@
                (external_id :>
                   InsertedCard(account_number, PanOther, cvv, generateExpiry(4),
                                "Inactive", limit_amount, "no"))
          /\ Start(r, [base EXCEPT !.resp = CardAnswer(201, "Card created")],
                   account_number)

\* the status the reissue gives the old card
OldCardStatus(reason_code) ==
  CASE reason_code = "RENEW" -> "EXPIRED"
    [] reason_code \in {"LOST", "STOLEN"} -> "BLOCKED"
    [] reason_code \in {"DAMAGED", "CHIP_ERROR", "REPRINT"} -> "REPLACED"
    [] OTHER -> ""

\* the replacement of oldCard: a copy with a new exid, and with a new cvv and
\* expiry unless the card is reprinted
NewCardDetails(oldCard, reason_code, cvv) ==
  InsertedCard(oldCard.account_number,
               IF reason_code \in {"LOST", "STOLEN"} THEN PanOther ELSE oldCard.pan,
               IF OldCardStatus(reason_code) = "REPLACED" THEN oldCard.cvv ELSE cvv,
               IF OldCardStatus(reason_code) = "REPLACED" THEN oldCard.expiry
               ELSE generateExpiry(4),
               "INACTIVE", oldCard.limit_amount, oldCard.pin_set)

\* POST /api/v1/card/reissue; newExid and cvv are what generateEXID and
\* generateCVV return, fault the statement that throws. The UPDATE of the old
\* card and the INSERT of the new one are two statements on the pool, each
\* committed as it is made
CardReissueRequest(r, external_id, reason_code, newExid, cvv, fault) ==
  /\ CanStart(r)
  /\ UNCHANGED <<accounts, fee_ledger, fees_schedule, rowLock, pool, approved,
                 deposited>>
  /\ LET base == [Idle EXCEPT !.op = "cardReissue", !.pc = "end",
                    !.arg = [external_id |-> external_id, newExid |-> newExid,
                             fault |-> fault]]
         Reject(resp) ==
           /\ Start(r, [base EXCEPT !.resp = resp], "none")
           /\ UNCHANGED cards
     IN
     IF external_id = "" \/ reason_code = ""
     THEN Reject(Rejected(400, "Missing mandatory fields: external_id or reason_code."))
     ELSE IF fault = "lookup" THEN Reject(Unanswered)
     ELSE IF external_id \notin DOMAIN cards
     THEN Reject(Rejected(404, "Original card not found for EXID."))
     ELSE IF OldCardStatus(reason_code) = ""
     THEN Reject(Rejected(400, "Invalid reason code."))
     ELSE IF fault = "update"
     THEN Reject(Rejected(500, "Database error during old card status update"))
     ELSE
       LET updated == [cards EXCEPT ![external_id].status =
                                      EnumValue(OldCardStatus(reason_code))]
       IN  IF fault = "insert" \/ newExid \in DOMAIN cards
           THEN /\ cards' = updated
                /\ Start(r, [base EXCEPT !.resp =
                       Rejected(500, "Database error during new card insertion")],
                     cards[external_id].account_number)
           ELSE /\ cards' = updated @@
                      (newExid :> NewCardDetails(cards[external_id], reason_code, cvv))
                /\ Start(r, [base EXCEPT !.resp = CardAnswer(200, "Card reissued")],
                         cards[external_id].account_number)

\* CardActivateRequest with the bug of no status check
CardActivateRequestAnyStatus(r, exId, cvv, expiry, fault) ==
  /\ CanStart(r)
  /\ UNCHANGED <<accounts, fee_ledger, fees_schedule, rowLock, pool, approved,
                 deposited>>
  /\ LET base == [Idle EXCEPT !.op = "cardActivate", !.pc = "end",
                    !.arg = [exId |-> exId, cvv |-> cvv, expiry |-> expiry,
                             fault |-> fault]]
         Reject(resp) ==
           /\ Start(r, [base EXCEPT !.resp = resp], "none")
           /\ UNCHANGED cards
     IN
     IF exId = "" \/ cvv = "" \/ expiry = 0
     THEN Reject(Rejected(400, "Missing mandatory fields: exId, cvv, or expiry."))
     ELSE IF fault = "lookup" THEN Reject(Unanswered)
     ELSE IF exId \notin DOMAIN cards
     THEN Reject(Rejected(404, "Card not found for EXID."))
     ELSE IF cards[exId].cvv # cvv \/ cards[exId].expiry # expiry
     THEN Reject(Rejected(403, "Validation failed: CVV or Expiry mismatch."))
     ELSE IF fault = "update"
     THEN Reject(Rejected(500, "Database error during activation"))
     ELSE /\ cards' = [cards EXCEPT ![exId].status = "Active"]
          /\ Start(r, [base EXCEPT !.resp = CardAnswer(200, "Card activated")],
                   cards[exId].account_number)

\* POST /api/v1/card/activate; expiry 0 is a missing expiry
CardActivateRequest(r, exId, cvv, expiry, fault) ==
  /\ CanStart(r)
  /\ UNCHANGED <<accounts, fee_ledger, fees_schedule, rowLock, pool, approved,
                 deposited>>
  /\ LET base == [Idle EXCEPT !.op = "cardActivate", !.pc = "end",
                    !.arg = [exId |-> exId, cvv |-> cvv, expiry |-> expiry,
                             fault |-> fault]]
         Reject(resp) ==
           /\ Start(r, [base EXCEPT !.resp = resp], "none")
           /\ UNCHANGED cards
     IN
     IF exId = "" \/ cvv = "" \/ expiry = 0
     THEN Reject(Rejected(400, "Missing mandatory fields: exId, cvv, or expiry."))
     ELSE IF fault = "lookup" THEN Reject(Unanswered)
     ELSE IF exId \notin DOMAIN cards
     THEN Reject(Rejected(404, "Card not found for EXID."))
     ELSE IF cards[exId].cvv # cvv \/ cards[exId].expiry # expiry
     THEN Reject(Rejected(403, "Validation failed: CVV or Expiry mismatch."))
     ELSE IF cards[exId].status # "Inactive"
     THEN Reject(Rejected(400, "Only Inactive cards can be activated."))
     ELSE IF fault = "update"
     THEN Reject(Rejected(500, "Database error during activation"))
     ELSE /\ cards' = [cards EXCEPT ![exId].status = "Active"]
          /\ Start(r, [base EXCEPT !.resp = CardAnswer(200, "Card activated")],
                   cards[exId].account_number)

\* the status a macro block code maps to; "" is a code that is not recognized
\* and "403" the refused removal of a block that is not temporary
NewStatusOf(code, currentBlockCode) ==
  CASE code \in {"T", "M", "B", "L", "S", "F", "D"} -> "Blocked"
    [] code = "C" -> "Inactive"
    [] code = "ACTIVE" -> "Active"
    [] code = "_" -> IF currentBlockCode \in {<<"T">>, <<"M">>} THEN "Active"
                     ELSE "403"
    [] OTHER -> ""

\* PUT /api/v1/card/status
CardStatusRequest(r, external_id, block_code, fault) ==
  /\ CanStart(r)
  /\ UNCHANGED <<accounts, fee_ledger, fees_schedule, rowLock, pool, approved,
                 deposited>>
  /\ LET PROCESSED_BLOCK_CODE == BlockCodeToUpperCase(block_code)
         base == [Idle EXCEPT !.op = "cardStatus", !.pc = "end",
                    !.arg = [external_id |-> external_id,
                             block_code |-> PROCESSED_BLOCK_CODE]]
         Reject(resp) ==
           /\ Start(r, [base EXCEPT !.resp = resp], "none")
           /\ UNCHANGED cards
     IN
     IF external_id = "" \/ block_code = ""
     THEN Reject(Rejected(400, "Missing mandatory fields: external_id or block_code."))
     ELSE IF fault = "lookup" THEN Reject(Unanswered)
     ELSE IF external_id \notin DOMAIN cards
     THEN Reject(Rejected(404, "Card not found for EXID."))
     ELSE
       LET newStatus == NewStatusOf(PROCESSED_BLOCK_CODE, cards[external_id].block_code)
           dbBlockCode == IF newStatus = "Active" THEN "" ELSE PROCESSED_BLOCK_CODE
       IN  IF newStatus = "403"
           THEN Reject(Rejected(403, "Removal code '_' is only applicable for Temporary Blocks."))
           ELSE IF newStatus = ""
           THEN Reject(Rejected(400, "Invalid block code or block code not recognized."))
           ELSE IF fault = "update"
           THEN Reject(Rejected(500, "Database error during status change"))
           ELSE /\ cards' = [cards EXCEPT ![external_id].status = newStatus,
                                          ![external_id].block_code = <<dbBlockCode>>]
                /\ Start(r, [base EXCEPT !.resp = CardAnswer(200, "Card status updated")],
                         cards[external_id].account_number)

\* the response is sent
CardEnd(r) ==
  /\ req[r].pc = "end"
  /\ req[r].op \in {"cardCreate", "cardReissue", "cardActivate", "cardStatus"}
  /\ req' = [req EXCEPT ![r] = Idle]
  /\ UNCHANGED <<accounts, cards, fee_ledger, fees_schedule, rowLock, pool, nreq,
                 approved, deposited>>

\* ---------------------------------------------------------- specification
Step(r) ==
    \/ AuthUpdateAccounts(r)
    \/ AuthUpdateCards(r)
    \/ AuthLogFee(r)
    \/ AuthCommit(r)
    \/ AuthCatch(r)
    \/ AuthFinally(r)
    \/ AuthEnd(r)
    \/ DepositUpdateAccounts(r)
    \/ DepositCheck(r)
    \/ DepositSyncCards(r)
    \/ DepositCommit(r)
    \/ DepositCatch(r)
    \/ DepositFinally(r)
    \/ DepositEnd(r)

\* two requests at a time
Init == InitTables({NULL, <<500000>>}, {PartFeesSchedule})

Next ==
  /\ UNCHANGED body
  /\ \E r \in Reqs :
       \/ /\ CanStart(r)
          /\ nreq < MaxRequests
          /\ \E t \in TxnTypes, x \in ExIds, m \in AuthAmounts, c \in Currencies,
                f \in BOOLEAN : AuthorizeRequest(r, t, x, m, c, f)
       \/ /\ CanStart(r)
          /\ nreq < MaxRequests
          /\ \E a \in AccountNumbers, m \in DepositAmounts, c \in Currencies :
               DepositRequest(r, a, m, c)
       \/ Step(r)

Spec == Init /\ [][Next]_vars

\* one request at a time, over more values
InitSeq == InitTables({NULL, <<0>>, <<500000>>}, {FullFeesSchedule, PartFeesSchedule})

NextSeq ==
  /\ UNCHANGED body
  /\ \/ /\ CanStart(1)
        /\ nreq < MaxSeqRequests
        /\ \E t \in SeqTxnTypes, x \in SeqExIds, m \in SeqAuthAmounts,
              c \in SeqCurrencies, f \in BOOLEAN : AuthorizeRequest(1, t, x, m, c, f)
     \/ /\ CanStart(1)
        /\ nreq < MaxSeqRequests
        /\ \E a \in AccountNumbers, m \in DepositAmounts, c \in SeqCurrencies :
             DepositRequest(1, a, m, c)
     \/ Step(1)

SpecSeq == InitSeq /\ [][NextSeq]_vars

\* deposits and status updates, two requests at a time
InitSt == InitTables({NULL}, {FullFeesSchedule})

NextSt ==
  /\ UNCHANGED body
  /\ \E r \in Reqs :
       \/ /\ CanStart(r)
          /\ nreq < MaxStRequests
          /\ \E a \in StDepositAccounts, m \in DepositAmounts :
               DepositRequest(r, a, m, BASE_CURRENCY)
       \/ /\ CanStart(r)
          /\ nreq < MaxStRequests
          /\ \E a \in StAccountNumbers, x \in StExIds, n \in NewStatuses :
               UpdateStatusRequest(r, a, x, n)
       \/ DepositUpdateAccounts(r)
       \/ DepositCheck(r)
       \/ DepositSyncCards(r)
       \/ DepositCommit(r)
       \/ DepositCatch(r)
       \/ DepositFinally(r)
       \/ DepositEnd(r)
       \/ \E strict \in BOOLEAN : UpdateStatusAccount(r, strict)
       \/ \E strict \in BOOLEAN : UpdateStatusCard(r, strict)
       \/ UpdateStatusCommit(r)
       \/ UpdateStatusCatch(r)
       \/ UpdateStatusFinally(r)
       \/ UpdateStatusEnd(r)

SpecSt == InitSt /\ [][NextSt]_vars

\* the PIN routes, one request at a time
InitPin == InitTables({NULL}, {FullFeesSchedule})

NextPin ==
  /\ UNCHANGED body
  /\ \/ /\ CanStart(1)
        /\ nreq < MaxPinRequests
        /\ \E x \in PinExIds, p \in Pins, f \in BOOLEAN : PinSetRequest(1, x, p, f)
     \/ /\ CanStart(1)
        /\ nreq < MaxPinRequests
        /\ \E x \in PinExIds, b \in PinBlocks, p \in Pins, f \in BOOLEAN :
             PinChangeRequest(1, x, b, p, f)
     \/ /\ CanStart(1)
        /\ nreq < MaxPinRequests
        /\ \E x \in PinExIds, b \in PinBlocks, f \in BOOLEAN :
             PinVerifyRequest(1, x, b, f)
     \/ \E f \in BOOLEAN : UpdatePin(1, f)
     \/ PinEnd(1)

SpecPin == InitPin /\ [][NextPin]_vars

\* SetPin requests, two at a time: each await of a handler is a point where
\* the other handler can run
InitPinCo == InitTables({NULL}, {FullFeesSchedule})

NextPinCo ==
  /\ UNCHANGED body
  /\ \E r \in Reqs :
       \/ /\ CanStart(r)
          /\ nreq < MaxPinCoRequests
          /\ \E x \in PinCoExIds, p \in PinCoPins, f \in BOOLEAN :
               PinSetRequest(r, x, p, f)
       \/ \E f \in BOOLEAN : UpdatePin(r, f)
       \/ PinEnd(r)

SpecPinCo == InitPinCo /\ [][NextPinCo]_vars

\* calculateAndApplyFee on its own: the arguments and the result of the last
\* call are kept in the record of request 1
CalculateFeeCall(type, amount) ==
  /\ req' = [req EXCEPT ![1] = [Idle EXCEPT !.arg = [type |-> type, amount |-> amount],
                                  !.fee = calculateAndApplyFee(type, amount)]]
  /\ UNCHANGED <<accounts, cards, fee_ledger, fees_schedule, rowLock, pool, nreq,
                 approved, deposited>>

InitFee == InitTables({NULL}, {FullFeesSchedule})

NextFee ==
  /\ UNCHANGED body
  /\ \E t \in FeeTypes, m \in FeeAmounts : CalculateFeeCall(t, m)

SpecFee == InitFee /\ [][NextFee]_vars

\* generateArqc and validateArqc on their own: the arguments and the result
\* of the last call are kept in the record of request 1, with the ARQC that was
\* generated and the time of its generation.  The clock never goes back.
ArqcPans == {PanK1, PanOther}

GenerateArqcCall(pan, now) ==
  /\ req[1].arg # <<>> => req[1].arg.now <= now
  /\ req' = [req EXCEPT ![1] =
               [Idle EXCEPT !.arg = [call |-> "generateArqc", pan |-> pan,
                                     at |-> now, arqc |-> generateArqc(pan, now),
                                     now |-> now, received |-> <<>>,
                                     valid |-> FALSE]]]
  /\ UNCHANGED <<accounts, cards, fee_ledger, fees_schedule, rowLock, pool, nreq,
                 approved, deposited>>

\* the ARQC that was generated is presented whole, cut to 15 characters or
\* not at all
ValidateArqcCall(arqcReceived, now) ==
  /\ req[1].arg # <<>>
  /\ req[1].arg.now <= now
  /\ req' = [req EXCEPT ![1].arg =
               [@ EXCEPT !.call = "validateArqc", !.now = now,
                         !.received = arqcReceived,
                         !.valid = validateArqc(req[1].arg.pan, arqcReceived,
                                               now)]]
  /\ UNCHANGED <<accounts, cards, fee_ledger, fees_schedule, rowLock, pool, nreq,
                 approved, deposited>>

InitArqc == InitTables({NULL}, {FullFeesSchedule})

NextArqc ==
  /\ UNCHANGED body
  /\ \/ \E pan \in ArqcPans, now \in 0..MaxClock : GenerateArqcCall(pan, now)
     \/ /\ req[1].arg # <<>>
        /\ \E arqcReceived \in {req[1].arg.arqc, SubSeq(req[1].arg.arqc, 1, 15), <<>>},
              now \in 0..MaxClock : ValidateArqcCall(arqcReceived, now)

SpecArqc == InitArqc /\ [][NextArqc]_vars

\* one request at a time, its body kept until it has been answered
InitIn == InitTables({NULL, <<0>>, <<500000>>}, {FullFeesSchedule})

NextIn ==
  \/ /\ CanStart(1)
     /\ nreq < MaxInRequests
     /\ \E t \in InTxnTypes, x \in InExIds, m \in InAuthAmounts,
           c \in InCurrencies, f \in BOOLEAN :
          /\ AuthorizeRequest(1, t, x, m, c, f)
          /\ body' = [transaction_type |-> t, external_id |-> x, amount |-> m,
                      currency_code |-> c, lookupFails |-> f]
  \/ /\ CanStart(1)
     /\ nreq < MaxInRequests
     /\ \E a \in AccountNumbers, m \in InDepositAmounts, c \in InCurrencies :
          /\ DepositRequest(1, a, m, c)
          /\ body' = [account_number |-> a, amount |-> m, currency_code |-> c]
  \/ /\ CanStart(1)
     /\ nreq < MaxInRequests
     /\ \E x \in InPinExIds, p \in Pins, f \in BOOLEAN :
          /\ PinSetRequest(1, x, p, f)
          /\ body' = [external_id |-> x, clear_pin |-> p, lookupFails |-> f]
  \/ /\ CanStart(1)
     /\ nreq < MaxInRequests
     /\ \E x \in InPinExIds, b \in PinBlocks, p \in Pins, f \in BOOLEAN :
          /\ PinChangeRequest(1, x, b, p, f)
          /\ body' = [external_id |-> x, current_pin_block |-> b,
                      new_clear_pin |-> p, lookupFails |-> f]
  \/ /\ \/ Step(1)
        \/ \E f \in BOOLEAN : UpdatePin(1, f)
        \/ PinEnd(1)
     /\ body' = IF req'[1].pc = "idle" THEN <<>> ELSE body

SpecIn == InitIn /\ [][NextIn]_vars

\* authorizations on card K1 of account A1 and status updates of A1 and K1,
\* two requests at a time
AsExId == "K1"
AsAmounts == {0, 100000}
AsAccountNumbers == {"A1", ""}
AsExIds == {AsExId, ""}
AsStatuses == {"Active", "Frozen", ""}

InitAs == InitTables({NULL}, {FullFeesSchedule})

NextAs ==
  /\ UNCHANGED body
  /\ \E r \in Reqs :
       \/ /\ CanStart(r)
          /\ nreq < MaxAsRequests
          /\ \E m \in AsAmounts :
               AuthorizeRequest(r, "BILL_PAYMENT", AsExId, m, BASE_CURRENCY, FALSE)
       \/ /\ CanStart(r)
          /\ nreq < MaxAsRequests
          /\ \E a \in AsAccountNumbers, x \in AsExIds, n \in AsStatuses :
               UpdateStatusRequest(r, a, x, n)
       \/ AuthUpdateAccounts(r)
       \/ AuthUpdateCards(r)
       \/ AuthLogFee(r)
       \/ AuthCommit(r)
       \/ AuthCatch(r)
       \/ AuthFinally(r)
       \/ AuthEnd(r)
       \/ \E strict \in BOOLEAN : UpdateStatusAccount(r, strict)
       \/ \E strict \in BOOLEAN : UpdateStatusCard(r, strict)
       \/ UpdateStatusCommit(r)
       \/ UpdateStatusCatch(r)
       \/ UpdateStatusFinally(r)
       \/ UpdateStatusEnd(r)

SpecAs == InitAs /\ [][NextAs]_vars

\* the card routes and updateStatus, one request at a time; N1 and N2 are the
\* exids generateEXID can return, GenCvv the cvv generateCVV returns
NewExIds == {"N1", "N2"}
GenCvv == "456"
CardExIds == {"K1", "K3", "N1", "K0", ""}
CardAccountNumbers == {"A1", "A0"}
ProductCodes == {"CHQ-01", "GOLD"}
EmbossNames == {"A N OTHER", ""}
ReasonCodes == {"RENEW", "LOST", "REPRINT", "UPGRADE", ""}
PresentedCvvs == {SeedCvv, GenCvv, ""}
PresentedExpiries == {Now + 12, generateExpiry(4), 0}
BlockCodes == {"T", "t", "B", "C", "ACTIVE", "_", "X", ""}
CardUsAccountNumbers == {"A1", ""}
CardUsExIds == {"K3", "N1", ""}
CardUsStatuses == {"Active", "Frozen", ""}

InitCard == InitTables({NULL}, {FullFeesSchedule})

NextCard ==
  /\ UNCHANGED body
  /\ \/ /\ CanStart(1)
        /\ nreq < MaxCardRequests
        /\ \E a \in CardAccountNumbers, p \in ProductCodes, e \in EmbossNames,
              x \in NewExIds, f \in {"none", "lookup", "insert"} :
             CardCreateRequest(1, a, p, e, 800000, x, GenCvv, f)
     \/ /\ CanStart(1)
        /\ nreq < MaxCardRequests
        /\ \E x \in CardExIds, c \in ReasonCodes, n \in NewExIds,
              f \in {"none", "lookup", "update", "insert"} :
             CardReissueRequest(1, x, c, n, GenCvv, f)
     \/ /\ CanStart(1)
        /\ nreq < MaxCardRequests
        /\ \E x \in CardExIds, c \in PresentedCvvs, e \in PresentedExpiries,
              f \in {"none", "lookup", "update"} :
             CardActivateRequest(1, x, c, e, f)
     \/ /\ CanStart(1)
        /\ nreq < MaxCardRequests
        /\ \E x \in CardExIds, b \in BlockCodes, f \in {"none", "lookup", "update"} :
             CardStatusRequest(1, x, b, f)
     \/ /\ CanStart(1)
        /\ nreq < MaxCardRequests
        /\ \E a \in CardUsAccountNumbers, x \in CardUsExIds, n \in CardUsStatuses :
             UpdateStatusRequest(1, a, x, n)
     \/ CardEnd(1)
     \/ \E strict \in BOOLEAN : UpdateStatusAccount(1, strict)
     \/ \E strict \in BOOLEAN : UpdateStatusCard(1, strict)
     \/ UpdateStatusCommit(1)
     \/ UpdateStatusCatch(1)
     \/ UpdateStatusFinally(1)
     \/ UpdateStatusEnd(1)

SpecCard == InitCard /\ [][NextCard]_vars

\* card create, reissue and the PIN routes on the cards they make, one request
\* at a time
CardPinExIds == {"K1", "N1", "K0"}
CardPinReasons == {"RENEW", "LOST", "REPRINT"}
CardPinPins == {Pin1234, Pin123}
CardPinBlocks == {PinBlock5, PinBlock8}

InitCardPin == InitTables({NULL}, {FullFeesSchedule})

NextCardPin ==
  /\ UNCHANGED body
  /\ \/ /\ CanStart(1)
        /\ nreq < MaxCardPinRequests
        /\ \E x \in NewExIds, f \in {"none", "insert"} :
             CardCreateRequest(1, "A1", "CHQ-01", "A N OTHER", 800000, x, GenCvv, f)
     \/ /\ CanStart(1)
        /\ nreq < MaxCardPinRequests
        /\ \E x \in CardPinExIds, c \in CardPinReasons, n \in NewExIds,
              f \in {"none", "insert"} :
             CardReissueRequest(1, x, c, n, GenCvv, f)
     \/ /\ CanStart(1)
        /\ nreq < MaxCardPinRequests
        /\ \E x \in CardPinExIds, p \in CardPinPins : PinSetRequest(1, x, p, FALSE)
     \/ /\ CanStart(1)
        /\ nreq < MaxCardPinRequests
        /\ \E x \in CardPinExIds, b \in CardPinBlocks :
             PinChangeRequest(1, x, b, Pin5705, FALSE)
     \/ \E f \in BOOLEAN : UpdatePin(1, f)
     \/ PinEnd(1)
     \/ CardEnd(1)

SpecCardPin == InitCardPin /\ [][NextCardPin]_vars

\* card create, reissue, deposits and authorizations, one request at a time
CardBalExIds == {"K1", "N1"}
CardBalReasons == {"RENEW", "REPRINT"}
CardBalAmounts == {0, 250000}

InitCardBal == InitTables({NULL}, {FullFeesSchedule})

NextCardBal ==
  /\ UNCHANGED body
  /\ \/ /\ CanStart(1)
        /\ nreq < MaxCardBalRequests
        /\ \E a \in Accounts, x \in NewExIds, f \in {"none", "insert"} :
             CardCreateRequest(1, a, "CHQ-01", "A N OTHER", 800000, x, GenCvv, f)
     \/ /\ CanStart(1)
        /\ nreq < MaxCardBalRequests
        /\ \E x \in CardBalExIds, c \in CardBalReasons, n \in NewExIds,
              f \in {"none", "insert"} :
             CardReissueRequest(1, x, c, n, GenCvv, f)
     \/ /\ CanStart(1)
        /\ nreq < MaxCardBalRequests
        /\ \E a \in Accounts, m \in CardBalAmounts :
             DepositRequest(1, a, m, BASE_CURRENCY)
     \/ /\ CanStart(1)
        /\ nreq < MaxCardBalRequests
        /\ \E x \in CardBalExIds, m \in CardBalAmounts :
             AuthorizeRequest(1, "POS_PURCHASE", x, m, BASE_CURRENCY, FALSE)
     \/ CardEnd(1)
     \/ Step(1)

SpecCardBal == InitCardBal /\ [][NextCardBal]_vars

TypeOK ==
  /\ \A a \in Accounts : accounts[a].balance % 10 = 0 /\ accounts[a].daily_spent % 10 = 0
  /\ \A k \in Cards : cards[k].balance % 10 = 0
  /\ nreq \in Nat

\* =================================================================== claims
Tables == <<accounts, cards, fee_ledger>>

\* the limit as the specification words it: daily_limit whenever it is set,
\* limit_amount only when it is not
StatedLimit(authData) ==
  IF authData.daily_limit # NULL THEN authData.daily_limit[1]
  ELSE authData.limit_amount

\* the handler of request r has just decided on the limit or approved: its
\* read of the rows and its amounts are still at hand
Decided(r) ==
  /\ req[r].op = "authorize"
  /\ req[r].authData # <<>>
  /\ req[r].stage \in {"limit", "approved"}

RECURSIVE SumTotalDebit(_, _)
SumTotalDebit(log, a) ==
  IF log = <<>> THEN 0
  ELSE (IF Head(log).account_number = a THEN Head(log).total_debit ELSE 0)
       + SumTotalDebit(Tail(log), a)

\* C1 (SpecSeq): an authorization approved with no other request in progress
\* leaves balance = balance before - (converted amount + fee) and
\* daily_spent = daily_spent before + converted amount.
C1_ApprovedDebitArithmetic ==
  \A r \in Reqs :
    req[r].pc = "finally" /\ req[r].resp.response = "Approved" =>
      LET a == req[r].account
      IN  /\ accounts[a].balance =
               req[r].pre.balance
               - (req[r].resp.amount_debited + req[r].resp.fee_amount)
          /\ accounts[a].daily_spent =
               req[r].pre.daily_spent + req[r].resp.amount_debited

\* C2 (Spec): the step that answers an authorization with a decline changes no
\* account row, no card row and no fee ledger row, and these rows change only in
\* the commit of a request that is answered Approved or Deposited, so that a
\* declined authorization has changed none of them at any point.
C2_DeclineChangesNothing ==
  [][/\ \A r \in Reqs :
          req'[r].resp.response = "Declined" /\ req'[r].resp # req[r].resp
            => Tables' = Tables
     /\ Tables' # Tables =>
          \E r \in Reqs : /\ req[r].pc \in {"commit", "depCommit"}
                          /\ req'[r].resp.response \in {"Approved", "Deposited"}]_vars

\* a decline for the limit, after an earlier debit was committed
C2_Witness ==
  /\ approved # <<>>
  /\ \E r \in Reqs : req[r].pc = "finally" /\ req[r].resp.reason = "ExceedsLimit"

\* C3 (Spec): when no request is in flight, the balance of every account is its
\* initial balance plus the deposits answered with success minus the total
\* debits of the authorizations answered Approved.
C3_BalanceIsSerialSum ==
  (\A r \in Reqs : req[r].pc = "idle") =>
    \A a \in Accounts :
      accounts[a].balance = InitBalance(a) + deposited[a] - SumTotalDebit(approved, a)

C5_DailySpentWithinLimit ==
  \A a \in Accounts :
    accounts[a].daily_limit # NULL =>
      accounts[a].daily_spent <= accounts[a].daily_limit[1]

\* C6 (SpecSeq): an authorization that ends with FEE_SCHEDULE_MISSING, or with
\* the error of a statement that failed, leaves the account row, the card
\* balances and the fee ledger as they were before the request, holds no
\* write and no row lock.
C6_FailedUnitRolledBack ==
  \A r \in Reqs :
    /\ req[r].pc = "finally"
    /\ req[r].op = "authorize"
    /\ req[r].resp.reason \in {"FEE_SCHEDULE_MISSING_DB_ENTRY", "Internal System Error"}
    => /\ Snapshot(req[r].account) = req[r].pre
       /\ req[r].tx = NoTx
       /\ \A a \in Accounts : rowLock[a] # r

\* an authorization has ended with FEE_SCHEDULE_MISSING
C6_Witness ==
  \E r \in Reqs :
    /\ req[r].pc = "finally"
    /\ req[r].resp.reason = "FEE_SCHEDULE_MISSING_DB_ENTRY"
    /\ req[r].fee > 0

\* the Approved responses that carry a fee
FeeBearing == SelectSeq(approved, LAMBDA e : e.fee_amount > 0)

C8_LimitDecision ==
  \A r \in Reqs :
    Decided(r) =>
      (req[r].resp.reason = "ExceedsLimit"
         <=> req[r].authData.daily_spent + req[r].conv > StatedLimit(req[r].authData))

\* C9 (SpecSeq): an authorization that reaches the limit check with
\* daily_spent + converted amount within the limit is approved, whatever the
\* fee adds.
C9_LimitIgnoresFee ==
  \A r \in Reqs :
    /\ Decided(r)
    /\ req[r].authData.balance >= req[r].conv + req[r].fee
    /\ req[r].authData.daily_spent + req[r].conv <= StatedLimit(req[r].authData)
    => req[r].stage = "approved"

\* approved although the fee takes the total past the limit
C9_Witness ==
  \E r \in Reqs :
    /\ Decided(r)
    /\ req[r].stage = "approved"
    /\ req[r].fee > 0
    /\ req[r].authData.daily_spent + req[r].conv <= StatedLimit(req[r].authData)
    /\ req[r].authData.daily_spent + req[r].conv + req[r].fee
         > StatedLimit(req[r].authData)

\* C10 (SpecSeq): an authorization on a card whose expiry has passed, the
\* account and the card being Active, is declined with Expired.
C10_ExpiredCardDeclined ==
  \A r \in Reqs :
    /\ req[r].op = "authorize"
    /\ req[r].authData # <<>>
    /\ req[r].authData.account_status = "Active"
    /\ req[r].authData.card_status = "Active"
    /\ req[r].authData.expiry < Now
    => req[r].resp.reason = "Expired"

\* ------------------------------------------------ claims on the request body
\* In SpecIn one request is in flight at a time and no row changes before its
\* commit, so that the rows a declined request found are the committed rows.
InquiryType == "ATM_Balance_Inquiry"

\* the static rate table as the specification gives it, times 100
StatedRate(currency) ==
  CASE currency = "ZAR" -> 100
    [] currency = "USD" -> 1850
    [] currency = "EUR" -> 2000
    [] OTHER -> 0

\* the body carries the four fields of an authorization
ValidBody(b) ==
  /\ b.transaction_type # ""
  /\ b.external_id # ""
  /\ ~isNaN(b.amount)
  /\ b.amount > 0
  /\ b.currency_code # ""

\* the reason of the first check that fails in the stated order: validation,
\* lookup, inquiry, conversion, account status, card status, expiry, funds,
\* limit; "" when none fails
FirstFailing(b) ==
  IF ~ValidBody(b) THEN "Invalid Request Data"
  ELSE IF b.external_id \notin Cards THEN "Card/Account Not Found"
  ELSE IF b.transaction_type = InquiryType THEN ""
  ELSE IF StatedRate(b.currency_code) = 0 THEN "FX_RATE_UNAVAILABLE"
  ELSE LET d == getAuthData(b.external_id)
           converted == (b.amount * StatedRate(b.currency_code)) \div 100
           fee == calculateAndApplyFee(b.transaction_type, converted)
       IN  IF d.account_status # "Active" THEN d.account_status
           ELSE IF d.card_status # "Active" THEN d.card_status
           ELSE IF d.expiry < Now THEN "Expired"
           ELSE IF d.balance < converted + fee THEN "InsufficientFunds"
           ELSE IF d.daily_spent + converted > StatedLimit(d) THEN "ExceedsLimit"
           ELSE ""

\* request 1 is an authorization declined by one of the ordered checks, its
\* lookup query having run
DeclinedByCheck ==
  /\ req[1].op = "authorize"
  /\ body # <<>>
  /\ ~body.lookupFails
  /\ req[1].resp.response = "Declined"
  /\ req[1].stage \in {"validation", "lookup", "fx", "status", "expiry",
                       "funds", "limit"}

\* C11 (SpecIn): the reason of a declined authorization is that of the first
\* check that fails in the order validation, lookup, inquiry, conversion,
\* account status, card status, expiry, funds, limit.
C11_DeclineReasonIsFirstFailing ==
  DeclinedByCheck => req[1].resp.reason = FirstFailing(body)

\* the same for the cards that are within their expiry
C11_OrderWithinExpiry ==
  /\ DeclinedByCheck
  /\ body.external_id \in Cards => cards[body.external_id].expiry >= Now
  => req[1].resp.reason = FirstFailing(body)

\* request 1 is an authorization that reaches the conversion step
ReachesConversion ==
  /\ req[1].op = "authorize"
  /\ body # <<>>
  /\ ValidBody(body)
  /\ ~body.lookupFails
  /\ body.external_id \in Cards
  /\ body.transaction_type # InquiryType

\* C12 (SpecIn): an authorization whose currency is neither the base currency
\* nor in the rate table is declined with FX_RATE_UNAVAILABLE and leaves every
\* row as it was; an authorization that is approved has a currency of the
\* table and debits the amount times its rate.
C12_UnknownCurrencyDeclined ==
  /\ ReachesConversion /\ StatedRate(body.currency_code) = 0
     => /\ req[1].resp.response = "Declined"
        /\ req[1].resp.reason = "FX_RATE_UNAVAILABLE"
        /\ Snapshot(req[1].account) = req[1].pre
        /\ req[1].tx = NoTx
  /\ req[1].op = "authorize" /\ body # <<>> /\ req[1].stage = "approved"
     => /\ StatedRate(body.currency_code) # 0
        /\ req[1].conv * 100 = body.amount * StatedRate(body.currency_code)

\* FX_RATE_UNAVAILABLE on a card of the Frozen account
C12_Witness ==
  /\ ReachesConversion
  /\ body.currency_code = "GBP"
  /\ req[1].resp.reason = "FX_RATE_UNAVAILABLE"
  /\ accounts[req[1].account].status = "Frozen"

\* C16 (SpecIn): a deposit in a currency other than the base currency is
\* rejected as an expected rejection, not as an internal fault, and changes no
\* row.
C16_NonBaseDepositRejected ==
  /\ req[1].op = "deposit"
  /\ body # <<>>
  /\ body.account_number # ""
  /\ ~isNaN(body.amount) /\ body.amount > 0
  /\ body.currency_code \notin {"", BASE_CURRENCY}
  => /\ req[1].resp.response = "Rejected"
     /\ req[1].resp.code # 500
     /\ req[1].resp.reason # "Internal System Error"
     /\ req[1].tx = NoTx

\* request 1 is a balance inquiry for a card that exists, its lookup query
\* having run
InquiryOfCard ==
  /\ req[1].op = "authorize"
  /\ body # <<>>
  /\ body.transaction_type = InquiryType
  /\ body.external_id \in Cards
  /\ ~body.lookupFails

\* the answer of an inquiry: the balance, no fee, no row changed
InquiryAnswer ==
  /\ req[1].resp.response = "Balance"
  /\ req[1].resp.balance = accounts[cards[body.external_id].account_number].balance
  /\ req[1].resp.fee_amount = 0
  /\ Snapshot(req[1].account) = req[1].pre
  /\ req[1].tx = NoTx

\* C17 (SpecIn): a balance inquiry for a card that exists is answered with the
\* balance of the account and changes no account row, no card balance and no
\* fee ledger row, whatever the account and card status.
C17_InquiryReturnsBalance ==
  InquiryOfCard => InquiryAnswer

\* the same for the inquiries that carry an amount and a currency
C17_InquiryFrame ==
  InquiryOfCard /\ ValidBody(body) => InquiryAnswer

\* C18 (SpecIn): a balance inquiry with the inquiry type and the external_id
\* of a card that exists, with no amount and no currency_code, is answered
\* with the balance.
C18_InquiryNeedsOnlyExternalId ==
  InquiryOfCard /\ isNaN(body.amount) /\ body.currency_code = ""
  => req[1].resp.response = "Balance"

\* C13 (Spec): the committed balance of every account is non-negative, in
\* every interleaving of authorizations and deposits.
C13_BalanceNonNegative ==
  \A a \in Accounts : accounts[a].balance >= 0

\* debits were approved on A1 for more than the account ever held
C13_Witness ==
  /\ Len(approved) = 2
  /\ SumTotalDebit(approved, "A1") > InitBalance("A1") + deposited["A1"]
  /\ accounts["A1"].balance >= 0

C15_RejectedDepositChangesNothing ==
  [][/\ \A a \in Accounts :
          \/ accounts'[a].balance # accounts[a].balance
          \/ \E k \in CardsOf(a) : cards'[k].balance # cards[k].balance
          => /\ accounts[a].status = "Active"
             /\ \E r \in Reqs : /\ req[r].op = "deposit"
                                /\ req[r].account = a
                                /\ req[r].pc = "depCommit"
                                /\ req'[r].resp.response = "Deposited"
     /\ \A r \in Reqs :
          /\ req[r].op = "deposit"
          /\ req[r].resp.response # "Rejected"
          /\ req'[r].resp.response = "Rejected"
          => /\ \A a \in Accounts : accounts'[a].balance = accounts[a].balance
             /\ \A k \in Cards : cards'[k].balance = cards[k].balance
             /\ req'[r].tx = NoTx
             /\ req'[r].resp.code = 403 =>
                  /\ req'[r].resp.reason = "Account not found."
                       <=> req[r].account \notin Accounts
                  /\ req[r].account \in Accounts
                     /\ accounts[req[r].account].status # "Active"
                     => req'[r].resp.reason = accounts[req[r].account].status]_vars

\* a deposit on A1 is rejected as Frozen after an earlier deposit was credited
\* to A1, and a deposit on an account that does not exist as not found
C15_Witness ==
  /\ deposited["A1"] > 0
  /\ \E r \in Reqs : /\ req[r].op = "deposit"
                     /\ req[r].account = "A1"
                     /\ req[r].resp.reason = "Frozen"
                     /\ accounts["A1"].balance = InitBalance("A1") + deposited["A1"]

\* ----------------------------------------------------- claims on the PIN
\* request 1 has found its card; k is the card
PinFound == req[1].arg # <<>> /\ req[1].op \in {"setPin", "changePin"}

\* C19 (SpecPin): a SetPin that succeeds does so on a card whose pin_set is
\* no and leaves pin_set = yes and the PVV of the card's PAN and the PIN of the
\* request; a SetPin on a card whose pin_set is yes is rejected; and pvv and
\* pin_set change in no step other than the success of a SetPin or ChangePin.
C19_SetPinOnlyWhenUnset ==
  [][/\ req'[1].op = "setPin" /\ req'[1].resp.response = "PinUpdated"
        /\ req[1].resp.response # "PinUpdated"
        => LET k == req[1].arg.external_id
           IN  /\ cards[k].pin_set = "no"
               /\ isValidPin(req[1].arg.clear_pin)
               /\ cards'[k].pin_set = "yes"
               /\ cards'[k].pvv = generatePvv(cards[k].pan, req[1].arg.clear_pin)
               /\ \A o \in Cards \ {k} : cards'[o] = cards[o]
     /\ req'[1].op = "setPin" /\ req[1].pc = "idle" /\ req'[1].arg # <<>>
        /\ cards[req'[1].arg.external_id].pin_set = "yes"
        => /\ req'[1].pc = "end"
           /\ req'[1].resp.response = "Rejected"
           /\ cards' = cards
     /\ (\E k \in Cards : cards'[k].pvv # cards[k].pvv
                          \/ cards'[k].pin_set # cards[k].pin_set)
        => req'[1].resp.response = "PinUpdated"]_vars

\* PIN 1234 set on K1, whose PVV is 6644, and a second SetPin on K1 rejected
C19_Witness ==
  /\ cards["K1"].pin_set = "yes"
  /\ cards["K1"].pvv = <<"6", "6", "4", "4">>
  /\ req[1].op = "setPin"
  /\ PinFound
  /\ req[1].arg.external_id = "K1"
  /\ req[1].resp.reason = "PIN already set. Use /change instead."

\* C20 (SpecPin): a ChangePin on a card whose pin_set is not yes, or that has
\* no stored PVV, is rejected and leaves pvv and pin_set as they are; a ChangePin that succeeds does so
\* on a card whose pin_set is yes and whose stored PVV the presented PIN block
\* has been verified against, and only then is the new PVV stored.
C20_ChangePinOnlyWhenSet ==
  [][/\ req'[1].op = "changePin" /\ req[1].pc = "idle" /\ req'[1].arg # <<>>
        /\ (cards[req'[1].arg.external_id].pin_set # "yes"
            \/ cards[req'[1].arg.external_id].pvv = NULL)
        => /\ req'[1].pc = "end"
           /\ req'[1].resp.response = "Rejected"
           /\ cards' = cards
     /\ req[1].op = "changePin" /\ req[1].pc = "updatePin"
        => LET k == req[1].arg.external_id
           IN  /\ cards[k].pin_set = "yes"
               /\ cards[k].pvv # NULL
               /\ verifyPinBlock(cards[k].pan, req[1].arg.current_pin_block,
                                 cards[k].pvv)
     /\ req'[1].op = "changePin" /\ req[1].pc = "idle"
        => cards' = cards]_vars

\* the PIN of K1, set to 1234 (PVV 6644), changed to 5705 (PVV 1111) on a
\* PIN block that verifies, while the PIN of K2 was never set
C20_Witness ==
  /\ req[1].op = "changePin"
  /\ req[1].resp.response = "PinUpdated"
  /\ req[1].arg.external_id = "K1"
  /\ req[1].arg.pvv = <<"6", "6", "4", "4">>
  /\ req[1].arg.current_pin_block = PinBlock8
  /\ cards["K1"].pvv = <<"1", "1", "1", "1">>
  /\ cards["K1"].pin_set = "yes"
  /\ cards["K2"].pin_set = "no"
  /\ cards["K2"].pvv = NULL

\* the PINs whose PVV for the PAN is the stored one
CurrentPins(pan, pvv) == {p \in Pins : isValidPin(p) /\ generatePvv(pan, p) = pvv}

\* C21 (SpecPin): a ChangePin that finds its card with the PIN set to p, and
\* that presents createPinBlock0(p, pan) with a valid new PIN, goes on to
\* store the PVV of the new PIN.
C21_ChangeWithCurrentPinSucceeds ==
  [][req[1].pc = "idle" /\ req'[1].op = "changePin" /\ req'[1].arg # <<>>
     => LET a == req'[1].arg
            c == cards[a.external_id]
        IN  (/\ c.pin_set = "yes"
             /\ \E p \in CurrentPins(c.pan, c.pvv) :
                  a.current_pin_block = createPinBlock0(p, c.pan))
            => /\ req'[1].pc = "updatePin"
               /\ a.newPVV = generatePvv(c.pan, a.clear_pin)]_vars

\* C22 (SpecPin): a ChangePin that finds its card with the PIN set and
\* presents a PIN block that createPinBlock0 gives for none of the PINs of
\* the stored PVV is rejected with "Incorrect current PIN." and changes no
\* card.
C22_ChangeWithWrongPinRejected ==
  [][req[1].pc = "idle" /\ req'[1].op = "changePin" /\ req'[1].arg # <<>>
     => LET a == req'[1].arg
            c == cards[a.external_id]
        IN  (/\ c.pin_set = "yes"
             /\ c.pvv # NULL
             /\ \A p \in CurrentPins(c.pan, c.pvv) :
                  a.current_pin_block # createPinBlock0(p, c.pan))
            => /\ req'[1].pc = "end"
               /\ req'[1].resp.reason = "Incorrect current PIN."
               /\ cards' = cards]_vars

\* the PIN block of the model that starts with 5 is the one createPinBlock0
\* builds for PIN 1234
PinBlock5IsGenuine ==
  /\ createPinBlock0(Pin1234, PanK1) = PinBlock5
  /\ createPinBlock0(Pin1234, PanOther) = PinBlock5
  /\ createPinBlock0(Pin5705, PanK1) # PinBlock5

\* C23 (SpecPin): a VerifyPin answers "verified" (200) or "not verified"
\* (401) only when it found a card whose status is Active, rejects every card
\* it finds with another status, and no step of a VerifyPin changes a card or
\* an account.
C23_VerifyPinActiveOnlyAndReadOnly ==
  [][/\ req[1].pc = "idle" /\ req'[1].op = "verifyPin"
        => /\ req'[1].pc = "end"
           /\ cards' = cards /\ accounts' = accounts
           /\ req'[1].resp.code \in {200, 401}
              => /\ req'[1].arg # <<>>
                 /\ cards[req'[1].arg.external_id].status = "Active"
           /\ req'[1].arg # <<>>
              /\ cards[req'[1].arg.external_id].status # "Active"
              => /\ req'[1].resp.response = "Rejected"
                 /\ req'[1].resp.code = 400
     /\ req[1].op = "verifyPin"
        => cards' = cards /\ accounts' = accounts]_vars

\* the PIN of the Blocked card K3 is set and a VerifyPin with a block that
\* would verify is rejected for the card's status
C23_Witness ==
  /\ req[1].op = "verifyPin"
  /\ req[1].arg # <<>>
  /\ req[1].arg.external_id = "K3"
  /\ req[1].arg.current_pin_block = PinBlock8
  /\ cards["K3"].status = "Blocked"
  /\ cards["K3"].pin_set = "yes"
  /\ cards["K3"].pvv = <<"6", "8", "7", "7">>
  /\ req[1].resp.code = 400

\* C24 (SpecPinCo): the UPDATE of a SetPin that answers 200 finds the card
\* with pin_set = no, so that of the SetPins in flight on one card with
\* pin_set = no at most one succeeds and the stored PVV is that of its PIN.
C24_SetPinAtomic ==
  [][\A r \in Reqs :
       req[r].op = "setPin" /\ req[r].pc = "updatePin"
       /\ req'[r].resp.response = "PinUpdated"
       => cards[req[r].arg.external_id].pin_set = "no"]_vars

\* ------------------------------------------- claims on the connection pool
\* C25 (Spec): every connection of the pool is either on the free list once or
\* held by one request in flight, so that every handler that has returned has
\* released the connection it acquired, and released it once.
C25_ConnectionsReleasedOnce ==
  pool.free + Cardinality({r \in Reqs : req[r].conn = "held"}) = pool.all

\* the same for the handlers other than the balance inquiry: their finally
\* block releases a connection that is held
C25_ReleaseOfHeldConnection ==
  [][\A r \in Reqs :
       req[r].pc = "finally" /\ req'[r].pc = "idle" /\ req[r].stage # "inquiry"
       => /\ req[r].conn = "held"
          /\ pool'.free = pool.free + 1]_vars

\* C26 (SpecPin): no handler ends on a fault that it did not turn into a
\* response: every request that has left its handler has been answered by it.
C26_NoFaultEscapes ==
  \A r \in Reqs : req[r].pc = "end" => req[r].resp.response # "Unanswered"

\* the same for the authorization and deposit handlers, whose queries all run
\* inside a try block (the rollback of the catch block is taken not to fail)
C26_LedgerHandlersAnswer ==
  \A r \in Reqs :
    req[r].op \in {"authorize", "deposit"} /\ req[r].pc \in {"end", "finally"}
    => req[r].resp.code \in {200, 400, 403, 404, 500}

\* -------------------------------------------------------- claims on fees
\* the call of calculateAndApplyFee that request 1 records
FeeCalled == req[1].pc = "idle" /\ req[1].arg # <<>>

UnknownTypeRequest ==
  /\ body # <<>>
  /\ req[1].op = "authorize"
  /\ ValidBody(body)
  /\ body.transaction_type \notin DOMAIN FEE_SCHEDULE
  /\ body.transaction_type # InquiryType

\* C28 (SpecIn): an authorization of a type that is not in the fee schedule is
\* never answered FEE_SCHEDULE_MISSING_DB_ENTRY, has fee 0 and adds no fee
\* ledger entry; it is approved only with account and card Active, the balance
\* covering the converted amount and the daily limit, where one is set, not
\* exceeded; and once approved the balance of the account and of its cards is
\* the balance before less the converted amount.
C28_UnknownTypeNoFee ==
  UnknownTypeRequest =>
    /\ req[1].resp.reason # "FEE_SCHEDULE_MISSING_DB_ENTRY"
    /\ req[1].fee = 0
    /\ fee_ledger = <<>>
    /\ req[1].resp.response = "Approved"
       => LET a == req[1].account
              limit == accounts[a].daily_limit
              converted == req[1].resp.amount_debited
          IN  /\ converted = (body.amount * StatedRate(body.currency_code)) \div 100
              /\ req[1].resp.fee_amount = 0
              /\ req[1].resp.total_debit = converted
              /\ accounts[a].status = "Active"
              /\ cards[body.external_id].status = "Active"
              /\ req[1].pre.balance >= converted
              /\ limit # NULL /\ limit[1] > 0
                 => req[1].pre.daily_spent + converted <= limit[1]
              /\ req[1].pc = "finally"
                 => /\ accounts[a].balance = req[1].pre.balance - converted
                    /\ \A k \in CardsOf(a) : cards[k].balance = accounts[a].balance

\* the same with the balances compared only when the converted amount is a
\* whole number of cents, which the DECIMAL(15,2) columns keep as it is
C28_UnknownTypeWholeCents ==
  UnknownTypeRequest =>
    /\ req[1].resp.reason # "FEE_SCHEDULE_MISSING_DB_ENTRY"
    /\ req[1].fee = 0
    /\ fee_ledger = <<>>
    /\ req[1].resp.response = "Approved"
       => LET a == req[1].account
              limit == accounts[a].daily_limit
              converted == req[1].resp.amount_debited
          IN  /\ converted = (body.amount * StatedRate(body.currency_code)) \div 100
              /\ req[1].resp.fee_amount = 0
              /\ req[1].resp.total_debit = converted
              /\ accounts[a].status = "Active"
              /\ cards[body.external_id].status = "Active"
              /\ req[1].pre.balance >= converted
              /\ limit # NULL /\ limit[1] > 0
                 => req[1].pre.daily_spent + converted <= limit[1]
              /\ req[1].pc = "finally" /\ converted % 10 = 0
                 => /\ accounts[a].balance = req[1].pre.balance - converted
                    /\ \A k \in CardsOf(a) : cards[k].balance = accounts[a].balance

\* ------------------------------------------------------ claims on the ARQC
\* C29 (SpecArqc): validateArqc accepts the ARQC that generateArqc produced
\* for the same PAN, whenever it is called after the generation, and rejects
\* an ARQC that is empty or not 16 characters long.
C29_GeneratedArqcValidates ==
  req[1].arg # <<>> /\ req[1].arg.call = "validateArqc" =>
    /\ req[1].arg.received = req[1].arg.arqc => req[1].arg.valid
    /\ Len(req[1].arg.received) # 16 => ~req[1].arg.valid

\* the same for a validation in the millisecond of the generation
C29_ValidatesInSameMillisecond ==
  req[1].arg # <<>> /\ req[1].arg.call = "validateArqc" =>
    /\ req[1].arg.received = req[1].arg.arqc /\ req[1].arg.now = req[1].arg.at
       => req[1].arg.valid
    /\ Len(req[1].arg.received) # 16 => ~req[1].arg.valid

\* ---------------------------------------------------- claims on validation
\* the body b of a request of kind op fails the validation of its route: a
\* field is missing, the amount is not a number above 0, or the PIN is not 4
\* to 12 digits
FailsValidation(op, b) ==
  CASE op = "authorize" -> ~ValidBody(b)
    [] op = "deposit" -> \/ b.account_number = "" \/ b.currency_code = ""
                         \/ isNaN(b.amount) \/ b.amount <= 0
    [] op = "setPin" -> \/ b.external_id = "" \/ b.clear_pin = <<>>
                        \/ Len(b.clear_pin) \notin 4..12
                        \/ \E i \in 1..Len(b.clear_pin) : b.clear_pin[i] \notin Digit
    [] op = "changePin" -> \/ b.external_id = "" \/ b.current_pin_block = <<>>
                           \/ b.new_clear_pin = <<>>
                           \/ Len(b.new_clear_pin) \notin 4..12
                           \/ \E i \in 1..Len(b.new_clear_pin) :
                                b.new_clear_pin[i] \notin Digit
    [] OTHER -> FALSE

\* C30 (SpecIn): a request whose body fails validation is answered 400 in
\* the step that receives it, whether or not the database would fail; that
\* step and the return of the handler acquire no connection, begin no
\* transaction, read no row and change no row.
C30_ValidationBeforePersistence ==
  [][/\ (body' # <<>> /\ FailsValidation(req'[1].op, body'))
        => /\ req'[1].pc = "end"
           /\ req'[1].resp.code = 400
           /\ req'[1].conn = "none"
           /\ ~req'[1].txOpen
           /\ req'[1].tx = NoTx
           /\ req'[1].authData = <<>>
           /\ req'[1].arg = <<>>
           /\ pool' = pool
           /\ rowLock' = rowLock
           /\ <<accounts, cards, fee_ledger, fees_schedule>>' =
                <<accounts, cards, fee_ledger, fees_schedule>>
     /\ (body # <<>> /\ FailsValidation(req[1].op, body))
        => /\ req'[1].pc = "idle"
           /\ pool' = pool
           /\ rowLock' = rowLock
           /\ <<accounts, cards, fee_ledger, fees_schedule>>' =
                <<accounts, cards, fee_ledger, fees_schedule>>]_vars

\* a SetPin with a PIN of three digits is answered 400 although its lookup
\* would have failed
C30_Witness ==
  /\ body # <<>>
  /\ req[1].op = "setPin"
  /\ body.external_id = "K1"
  /\ body.clear_pin = Pin123
  /\ body.lookupFails
  /\ req[1].resp.code = 400
  /\ req[1].resp.reason = "Invalid PIN format (4-12 digits)."
  /\ pool = [all |-> 0, free |-> 0]

\* ------------------------------------------------ claims on transactions
\* C39 (Spec): a request whose transaction is open holds its connection: the
\* transaction of an authorization or deposit is committed or rolled back
\* before the connection goes back to the pool.
C39_NoOpenTransactionReleased ==
  \A r \in Reqs : req[r].txOpen => req[r].conn = "held"

\* the same for every path but the balance inquiry, and at the release of
\* the finally block
C39_EndedBeforeFinally ==
  [][\A r \in Reqs :
       req[r].pc = "finally" /\ req'[r].pc = "idle" /\ req[r].stage # "inquiry"
       => ~req[r].txOpen /\ req[r].tx = NoTx]_vars

C31_DebitOnlyOnActive ==
  [][\A r \in Reqs :
       req[r].op = "authorize" /\ req[r].pc = "commit" /\ req'[r].resp.code = 200
       => /\ accounts'[req[r].account].status = "Active"
          /\ cards'[AsExId].status = "Active"]_vars

\* the status columns of the two tables
StatusColumns ==
  <<[a \in Accounts |-> accounts[a].status], [k \in Cards |-> cards[k].status]>>

\* request r answers in this step, with 200 or with an error
UpdateStatusAnswers(r) ==
  /\ req[r].pc # "idle" => req[r].op = "updateStatus"
  /\ req[r].resp.code = 0
  /\ req'[r].op = "updateStatus"
  /\ req'[r].resp.code # 0

\* C37 (SpecSt): the step in which updateStatus answers with an error changes
\* no account status and no card status, and no earlier step of the request
\* did; the step in which it answers 200 on an account_number leaves the
\* account and every card of the account with new_status.
C37_UpdateStatusAllOrNothing ==
  [][/\ (StatusColumns' # StatusColumns)
        => \E r \in Reqs : UpdateStatusAnswers(r) /\ req'[r].resp.code = 200
     /\ \A r \in Reqs :
          (/\ UpdateStatusAnswers(r)
           /\ req'[r].resp.code = 200
           /\ req[r].arg.account_number # "")
          => /\ accounts'[req[r].arg.account_number].status = req[r].arg.new_status
             /\ \A k \in CardsOf(req[r].arg.account_number) :
                  cards'[k].status = req[r].arg.new_status]_vars

\* the first half alone: statuses change only in the step of a 200
C37_ErrorChangesNothing ==
  [][(StatusColumns' # StatusColumns)
     => \E r \in Reqs : UpdateStatusAnswers(r) /\ req'[r].resp.code = 200]_vars

\* ------------------------------------------------ claims on the card routes
\* a block that is not to be lifted: a permanent block code, or the status a
\* reissue leaves on the card it replaces
PermanentCodes == {<<"B">>, <<"L">>, <<"S">>, <<"F">>, <<"D">>}

Retired(k) ==
  \/ cards[k].status = "Blocked" /\ cards[k].block_code \in PermanentCodes
  \/ cards[k].status \in {"Expired", "Replaced"}

\* C33 (SpecCard): no step makes Active a card that is Blocked with one of
\* the codes B, L, S, F, D or that is Expired or Replaced.
C33_RetiredNeverActive ==
  [][\A k \in DOMAIN cards : Retired(k) => cards'[k].status # "Active"]_vars

\* the removal code lifts temporary blocks only
C33_RemovalOnlyOfTemporary ==
  [][\A r \in Reqs :
       (/\ req[r].pc = "idle"
        /\ req'[r].op = "cardStatus"
        /\ req'[r].arg.block_code = "_"
        /\ req'[r].resp.code = 200)
       => cards[req'[r].arg.external_id].block_code \in {<<"T">>, <<"M">>}]_vars

\* request r is an activation handled in this step
Activates(r) == req[r].pc = "idle" /\ req'[r].op = "cardActivate"

\* what the activation asks of the card: it exists, is Inactive, and its cvv
\* and expiry are the presented ones
Activable(a) ==
  /\ a.exId \in DOMAIN cards
  /\ cards[a.exId].status = "Inactive"
  /\ cards[a.exId].cvv = a.cvv
  /\ cards[a.exId].expiry = a.expiry

\* C34 (SpecCard): an activation answers 200 only on a card that is Inactive
\* and whose cvv and expiry equal the presented ones, and then the card is
\* Active; an activation that does not answer 200 changes no card; and on a
\* card that is missing, not Inactive, or of another cvv or expiry the
\* answer is a 400, 403 or 404.
C34_ActivationOnlyOfInactive ==
  [][\A r \in Reqs :
       Activates(r)
       => LET a == req'[r].arg
              code == req'[r].resp.code
          IN  /\ (code = 200)
                 => Activable(a) /\ cards'[a.exId].status = "Active"
              /\ (code # 200) => cards' = cards
              /\ (a.fault = "none" /\ ~Activable(a)) => code \in {400, 403, 404}]_vars

\* a card made by card create has been activated
C34_Witness ==
  /\ req[1].op = "cardActivate"
  /\ req[1].resp.code = 200
  /\ req[1].arg.exId \in NewExIds
  /\ cards[req[1].arg.exId].status = "Active"

\* an activation has been refused for the status of the card
C34_WitnessRefused ==
  /\ req[1].op = "cardActivate"
  /\ req[1].resp.code = 400
  /\ req[1].arg.exId \in DOMAIN cards
  /\ cards[req[1].arg.exId].status \in {"Active", "Blocked"}

\* C35 (SpecCard): a card whose status is Active has no block code: its
\* block_code is NULL or ''.
C35_ActiveHasNoBlockCode ==
  \A k \in DOMAIN cards :
    cards[k].status = "Active" => cards[k].block_code \in {NULL, <<"">>}

\* the card status route alone leaves no code on a card it makes Active
C35_StatusRouteClearsCode ==
  [][\A r \in Reqs :
       (/\ req[r].pc = "idle"
        /\ req'[r].op = "cardStatus"
        /\ req'[r].resp.code = 200
        /\ cards'[req'[r].arg.external_id].status = "Active")
       => cards'[req'[r].arg.external_id].block_code = <<"">>]_vars

\* request r is a reissue handled in this step
Reissues(r) == req[r].pc = "idle" /\ req'[r].op = "cardReissue"

\* C38 (SpecCard): a reissue that does not answer 200 changes no card, and a
\* reissue changes the status of the old card only in the step that inserts
\* its Inactive replacement.
C38_ReissueAllOrNothing ==
  [][\A r \in Reqs :
       Reissues(r)
       => LET a == req'[r].arg
          IN  /\ (req'[r].resp.code # 200) => cards' = cards
              /\ (cards' # cards)
                 => /\ a.newExid \in DOMAIN cards' \ DOMAIN cards
                    /\ cards'[a.newExid].status = "Inactive"
                    /\ cards'[a.external_id].status \in {"Expired", "Blocked", "Replaced"}]_vars

\* a reissue that answers 200 does both
C38_SuccessDoesBoth ==
  [][\A r \in Reqs :
       (Reissues(r) /\ req'[r].resp.code = 200)
       => LET a == req'[r].arg
          IN  /\ a.newExid \in DOMAIN cards' \ DOMAIN cards
              /\ cards'[a.newExid].status = "Inactive"
              /\ cards'[a.external_id].status \in {"Expired", "Blocked", "Replaced"}]_vars

\* C32 (SpecCardPin): a card with pin_set = yes has a stored PVV of four
\* digits.
C32_PinSetHasPvv ==
  \A k \in DOMAIN cards :
    cards[k].pin_set = "yes"
    => /\ cards[k].pvv # NULL
       /\ Len(cards[k].pvv) = 4
       /\ \A i \in 1..4 : cards[k].pvv[i] \in Digit

\* the same of the cards the PIN routes wrote to: updatePin stores pin_set
\* and the PVV in one statement
C32_UpdatePinStoresPvv ==
  [][\A k \in DOMAIN cards :
       (cards'[k].pin_set = "yes" /\ cards[k].pin_set = "no")
       => /\ Len(cards'[k].pvv) = 4
          /\ \A i \in 1..4 : cards'[k].pvv[i] \in Digit]_vars

\* C36 (SpecCardBal): the balance of every card is the balance of the account
\* that owns it, the cards made by card create and by reissue included.
C36_NewCardMirrorsBalance ==
  (\A r \in Reqs : req[r].tx = NoTx)
  => \A k \in DOMAIN cards : cards[k].balance = accounts[cards[k].account_number].balance

\* deposits and authorizations keep the balance of every card of the account
\* they write to equal to the balance of the account
C36_LedgerWritesMirror ==
  [][\A r \in Reqs :
       (req[r].tx # NoTx /\ req'[r].tx = NoTx /\ accounts' # accounts)
       => \A k \in DOMAIN cards' :
            cards'[k].account_number = req[r].account
            => cards'[k].balance = accounts'[req[r].account].balance]_vars

====
